---- MODULE Spec2Model ----
(***************************************************************************)
(* GradeSense marksheet extraction pipeline.                               *)
(*                                                                         *)
(* The model follows app/services/extraction_service.py (the orchestrator *)
(* and the validation fallback), app/services/llm_service.py (reply        *)
(* parsing and the repair pass), app/services/confidence_service.py (the   *)
(* recalibration engine) and app/models/response_models.py (the typed      *)
(* record).                                                                *)
(*                                                                         *)
(* Representation.                                                         *)
(*  - A Python str is a sequence of one-character strings.                 *)
(*  - A JSON / Python value is a tagged record ("node"): null, str, int,   *)
(*    float, list or dict; a dict's mapping is a function from key names   *)
(*    to nodes.                                                            *)
(*  - A float is an exact integer count of millionths (Unit): the weights  *)
(*    and confidences used are decimal fractions, so every weighted sum    *)
(*    is exact.  IEEE rounding is not modelled.                            *)
(*  - An operator that models a Python call which may raise returns        *)
(*    Ok(value) or Raise(exception type, message).                         *)
(***************************************************************************)
EXTENDS Integers, Sequences, FiniteSets, TLC

\* ------------------------------------------------------------------------
\* Bounds of the model
\* ------------------------------------------------------------------------

\* Longest reply, in tokens, enumerated for the provider's raw answer.
MaxReplyLen == 3

\* The calls of the engine that are followed over the life of the service.
MaxInvocations == 3

\* The requests that run concurrently.
MaxRequests == 2

\* settings.MAX_BATCH_SIZE, an environment setting, 10 unless set; batches of
\* up to one file more are enumerated.
MAX_BATCH_SIZE == 3

\* ------------------------------------------------------------------------
\* Numbers: floats as millionths
\* ------------------------------------------------------------------------

Unit == 1000 * 1000

\* d tenths, h hundredths as floats
Tenths(d) == d * (Unit \div 10)
Hundredths(h) == h * (Unit \div 100)

Min(a, b) == IF a <= b THEN a ELSE b

\* ------------------------------------------------------------------------
\* Python values
\* ------------------------------------------------------------------------

PyNone == [k |-> "null"]
PyStr(s) == [k |-> "str", s |-> s]
PyInt(n) == [k |-> "int", n |-> n]
PyFloat(micro) == [k |-> "float", n |-> micro]
PyList(items) == [k |-> "list", items |-> items]
PyDict(m) == [k |-> "dict", m |-> m]

EmptyMap == [key \in {} |-> PyNone]
EmptyDict == PyDict(EmptyMap)
EmptyList == PyList(<<>>)

IsDict(v) == v.k = "dict"
IsList(v) == v.k = "list"
IsNumber(v) == v.k \in {"int", "float"}

\* the float a number denotes, in millionths
Micro(v) == IF v.k = "int" THEN v.n * Unit ELSE v.n

\* dict.get(key, default)
Get(d, key, default) == IF key \in DOMAIN d.m THEN d.m[key] ELSE default

\* d[key] = v on a mapping
Put(m, key, v) == [kk \in (DOMAIN m) \cup {key} |-> IF kk = key THEN v ELSE m[kk]]

\* Python truthiness: `not value`
Falsy(v) ==
    CASE v.k = "null" -> TRUE
      [] v.k = "str" -> v.s = <<>>
      [] v.k \in {"int", "float"} -> v.n = 0
      [] v.k = "list" -> v.items = <<>>
      [] v.k = "dict" -> DOMAIN v.m = {}
      [] OTHER -> FALSE

\* results of calls that may raise
Ok(v) == [ok |-> TRUE, v |-> v]
Raise(type, msg) == [ok |-> FALSE, type |-> type, msg |-> msg]

\* ------------------------------------------------------------------------
\* Characters and strings
\* ------------------------------------------------------------------------

UpperSeq == <<"A","B","C","D","E","F","G","H","I","J","K","L","M",
              "N","O","P","Q","R","S","T","U","V","W","X","Y","Z">>
LowerSeq == <<"a","b","c","d","e","f","g","h","i","j","k","l","m",
              "n","o","p","q","r","s","t","u","v","w","x","y","z">>
DigitSeq == <<"0","1","2","3","4","5","6","7","8","9">>

Range(f) == {f[i] : i \in DOMAIN f}

UpperChars == Range(UpperSeq)
LowerChars == Range(LowerSeq)
DigitChars == Range(DigitSeq)
SpaceChars == {" ", "\n", "\t"}
WordChars == UpperChars \cup LowerChars \cup DigitChars \cup {"_"}

ToLower(c) ==
    IF c \in UpperChars
    THEN LowerSeq[CHOOSE i \in DOMAIN UpperSeq : UpperSeq[i] = c]
    ELSE c

ToUpper(c) ==
    IF c \in LowerChars
    THEN UpperSeq[CHOOSE i \in DOMAIN LowerSeq : LowerSeq[i] = c]
    ELSE c

\* str.lower()
Lower(s) == [i \in DOMAIN s |-> ToLower(s[i])]

\* `a in b` on strings
Contains(b, a) ==
    \E i \in 0..(Len(b) - Len(a)) :
        \A j \in 1..Len(a) : b[i + j] = a[j]

\* str.strip()
RECURSIVE LStrip(_)
LStrip(s) == IF s # <<>> /\ Head(s) \in SpaceChars THEN LStrip(Tail(s)) ELSE s

RECURSIVE RStrip(_)
RStrip(s) ==
    IF s # <<>> /\ s[Len(s)] \in SpaceChars
    THEN RStrip(SubSeq(s, 1, Len(s) - 1))
    ELSE s

\* str.strip() left out: what C6 is tested against
Unstripped(s) == s

Strip(s) == RStrip(LStrip(s))

\* str.split(): the maximal runs of non-whitespace characters, in order
RECURSIVE SplitFrom(_, _, _)
SplitFrom(s, i, word) ==
    IF i > Len(s)
    THEN IF word = <<>> THEN <<>> ELSE <<word>>
    ELSE IF s[i] \in SpaceChars
         THEN (IF word = <<>> THEN <<>> ELSE <<word>>) \o SplitFrom(s, i + 1, <<>>)
         ELSE SplitFrom(s, i + 1, Append(word, s[i]))

Split(s) == SplitFrom(s, 1, <<>>)

\* str(n) for an int
RECURSIVE NatStr(_)
NatStr(n) == IF n < 10 THEN <<DigitSeq[n + 1]>> ELSE NatStr(n \div 10) \o <<DigitSeq[(n % 10) + 1]>>

IntStr(n) == IF n < 0 THEN <<"-">> \o NatStr(-n) ELSE NatStr(n)

\* the digits of a fraction given in millionths, trailing zeros dropped,
\* at least one digit kept (repr of a float with at most six decimals)
RECURSIVE FracDigits(_, _)
FracDigits(micro, width) ==
    IF width = 0 \/ (micro = 0 /\ width < 6)
    THEN <<>>
    ELSE <<DigitSeq[(micro \div (Unit \div 10)) + 1]>>
         \o FracDigits((micro % (Unit \div 10)) * 10, width - 1)

FloatStr(micro) ==
    LET a == IF micro < 0 THEN -micro ELSE micro
    IN (IF micro < 0 THEN <<"-">> ELSE <<>>)
       \o NatStr(a \div Unit) \o <<".">> \o FracDigits(a % Unit, 6)

\* ------------------------------------------------------------------------
\* Regular expressions (Python's re), as far as the patterns need them
\* ------------------------------------------------------------------------

\* pattern syntax trees
Cls(cs) == [op |-> "cls", cs |-> cs]                      \* [...] or one char
Cat(rs) == [op |-> "cat", rs |-> rs]                      \* r1 r2 ...
Rep(r, lo, hi) == [op |-> "rep", r |-> r, lo |-> lo, hi |-> hi]  \* r{lo,hi}; hi = -1: no limit
WB == [op |-> "wb"]                                       \* \b
Bol == [op |-> "bol"]                                     \* ^
Eol == [op |-> "eol"]                                     \* $

Lit(str) == Cat([i \in DOMAIN str |-> Cls({str[i]})])
Digit == Cls(DigitChars)                                  \* \d
Space == Cls(SpaceChars)                                  \* \s
Opt(r) == Rep(r, 0, 1)
Plus(r) == Rep(r, 1, -1)

\* does character c match class cs (ic: re.IGNORECASE)
ClsMatch(cs, c, ic) ==
    \/ c \in cs
    \/ ic /\ (ToLower(c) \in cs \/ ToUpper(c) \in cs)

\* \b at offset i of s: exactly one neighbour is a word character
AtWordBoundary(s, i) ==
    LET before == i >= 1 /\ s[i] \in WordChars
        after == i < Len(s) /\ s[i + 1] \in WordChars
    IN before # after

\* the offsets at which a match of r that starts at offset i of s can end
RECURSIVE Ends(_, _, _, _)
RECURSIVE CatEnds(_, _, _, _, _)
RECURSIVE RepEnds(_, _, _, _, _)

Ends(r, s, i, ic) ==
    CASE r.op = "cls" ->
            IF i < Len(s) /\ ClsMatch(r.cs, s[i + 1], ic) THEN {i + 1} ELSE {}
      [] r.op = "wb" -> IF AtWordBoundary(s, i) THEN {i} ELSE {}
      [] r.op = "bol" -> IF i = 0 THEN {i} ELSE {}
      [] r.op = "eol" ->
            IF i = Len(s) \/ (i = Len(s) - 1 /\ s[Len(s)] = "\n") THEN {i} ELSE {}
      [] r.op = "cat" -> CatEnds(r.rs, 1, s, i, ic)
      [] r.op = "rep" -> RepEnds(r, 0, s, i, ic)

CatEnds(rs, n, s, i, ic) ==
    IF n > Len(rs)
    THEN {i}
    ELSE UNION {CatEnds(rs, n + 1, s, j, ic) : j \in Ends(rs[n], s, i, ic)}

RepEnds(r, count, s, i, ic) ==
    (IF count >= r.lo THEN {i} ELSE {})
    \cup (IF r.hi = -1 \/ count < r.hi
          THEN UNION {RepEnds(r, count + 1, s, j, ic) : j \in Ends(r.r, s, i, ic) \ {i}}
          ELSE {})

\* re.search(r, s, flags) is not None
ReSearch(r, s, ic) == \E i \in 0..Len(s) : Ends(r, s, i, ic) # {}

\* re.match(r, s) is not None
ReMatch(r, s, ic) == Ends(r, s, 0, ic) # {}

\* ------------------------------------------------------------------------
\* ConfidenceService.__init__: the pattern table
\* ------------------------------------------------------------------------

Letters == UpperChars \cup LowerChars

\* self.patterns: pattern type -> the regular expressions tried in order
patterns ==
    [ roll_number |->
        << Cat(<<WB, Rep(Digit, 4, 12), WB>>),
           Cat(<<WB, Rep(Cls(UpperChars), 1, 3), Rep(Digit, 4, 8), WB>>),
           Cat(<<WB, Rep(Digit, 2, 2), Rep(Cls(UpperChars), 2, 2), Rep(Digit, 4, 6), WB>>) >>,
      registration_number |->
        << Cat(<<WB, Rep(Cls(UpperChars), 2, 4), Rep(Digit, 6, 10), WB>>),
           Cat(<<WB, Rep(Digit, 4, 6), Cls({"/"}), Rep(Digit, 2, 4), WB>>),
           Cat(<<WB, Lit(<<"R","E","G">>), Rep(Digit, 6, 10), WB>>) >>,
      date |->
        << Cat(<<WB, Rep(Digit, 1, 2), Cls({"-", "/"}), Rep(Digit, 1, 2),
                 Cls({"-", "/"}), Rep(Digit, 4, 4), WB>>),
           Cat(<<WB, Rep(Digit, 4, 4), Cls({"-", "/"}), Rep(Digit, 1, 2),
                 Cls({"-", "/"}), Rep(Digit, 1, 2), WB>>),
           Cat(<<WB, Rep(Digit, 1, 2), Plus(Space), Rep(Cls(Letters), 3, 9),
                 Plus(Space), Rep(Digit, 4, 4), WB>>) >>,
      percentage |->
        << Cat(<<WB, Rep(Digit, 1, 3), Cls({"."}), Rep(Digit, 1, 2), Opt(Cls({"%"})), WB>>),
           Cat(<<WB, Rep(Digit, 1, 3), Cls({"%"}), WB>>) >>,
      grade |->
        << Cat(<<WB, Cls({"A","B","C","D","E","F"}), Opt(Cls({"+", "-"})), WB>>),
           Cat(<<WB, Lit(<<"F","i","r","s","t">>), Plus(Space),
                 Lit(<<"D","i","v","i","s","i","o","n">>), WB>>),
           Cat(<<WB, Lit(<<"S","e","c","o","n","d">>), Plus(Space),
                 Lit(<<"D","i","v","i","s","i","o","n">>), WB>>),
           Cat(<<WB, Lit(<<"T","h","i","r","d">>), Plus(Space),
                 Lit(<<"D","i","v","i","s","i","o","n">>), WB>>),
           Cat(<<WB, Lit(<<"P","a","s","s">>), WB>>),
           Cat(<<WB, Lit(<<"F","a","i","l">>), WB>>) >>,
      marks |->
        << Cat(<<WB, Rep(Digit, 1, 3), Rep(Space, 0, -1), Cls({"/"}),
                 Rep(Space, 0, -1), Rep(Digit, 1, 3), WB>>),
           Cat(<<WB, Rep(Digit, 1, 3), WB>>) >> ]

\* the attribute self.patterns of the one ConfidenceService instance, which
\* every request reads
VARIABLE self_patterns

\* self.patterns.get(pattern_type, [])
PatternsFor(pattern_type) ==
    IF pattern_type \in DOMAIN self_patterns THEN self_patterns[pattern_type] ELSE <<>>

\* the name pattern ^[A-Za-z\s\.]+$
NamePattern == Cat(<<Bol, Plus(Cls(Letters \cup SpaceChars \cup {"."})), Eol>>)

\* ------------------------------------------------------------------------
\* Python built-ins used by the scoring functions
\* ------------------------------------------------------------------------

\* str(value).  repr of a str inside a list is the str in single quotes.  The
\* text of a non-empty dict depends on its keys' insertion order and spelling,
\* which a mapping does not carry: no draft enumerated below has a non-empty
\* dict as a leaf value, and such a value is shown with an ellipsis.
RECURSIVE StrOf(_)
RECURSIVE ReprItems(_, _)

ReprOf(v) == IF v.k = "str" THEN <<"'">> \o v.s \o <<"'">> ELSE StrOf(v)

ReprItems(items, i) ==
    IF i > Len(items)
    THEN <<>>
    ELSE (IF i > 1 THEN <<",", " ">> ELSE <<>>) \o ReprOf(items[i]) \o ReprItems(items, i + 1)

StrOf(v) ==
    CASE v.k = "str" -> v.s
      [] v.k = "int" -> IntStr(v.n)
      [] v.k = "float" -> FloatStr(v.n)
      [] v.k = "null" -> <<"N","o","n","e">>
      [] v.k = "list" -> <<"[">> \o ReprItems(v.items, 1) \o <<"]">>
      [] v.k = "dict" -> IF DOMAIN v.m = {} THEN <<"{", "}">> ELSE <<"{", "...", "}">>

AllDigits(s) == s # <<>> /\ \A i \in DOMAIN s : s[i] \in DigitChars

RECURSIVE StrNat(_)
StrNat(s) ==
    IF s = <<>>
    THEN 0
    ELSE 10 * StrNat(SubSeq(s, 1, Len(s) - 1))
         + (CHOOSE d \in 0..9 : DigitSeq[d + 1] = s[Len(s)])

IndexOf(s, c) ==
    IF c \in Range(s) THEN CHOOSE i \in DOMAIN s : s[i] = c /\ \A j \in 1..(i - 1) : s[j] # c
    ELSE 0

\* float(str): surrounding whitespace dropped, an optional sign, digits with
\* an optional decimal point (exponents, "inf" and "nan" are outside the
\* characters enumerated).  Ok(millionths of the integer part, fraction cut
\* to six digits) or ValueError.
ParseFloatStr(str) ==
    LET t == Strip(str)
        neg == t # <<>> /\ t[1] = "-"
        u == IF t # <<>> /\ t[1] \in {"-", "+"} THEN Tail(t) ELSE t
        dot == IndexOf(u, ".")
        ip == IF dot = 0 THEN u ELSE SubSeq(u, 1, dot - 1)
        fp == IF dot = 0 THEN <<>> ELSE SubSeq(u, dot + 1, Len(u))
        fp6 == SubSeq(fp \o <<"0","0","0","0","0","0">>, 1, 6)
        wellFormed == /\ ip \o fp # <<>>
                      /\ \A i \in DOMAIN ip : ip[i] \in DigitChars
                      /\ \A i \in DOMAIN fp : fp[i] \in DigitChars
        mag == StrNat(ip) * Unit + StrNat(fp6)
    IN IF wellFormed
       THEN Ok(IF neg THEN -mag ELSE mag)
       ELSE Raise("ValueError", "could not convert string to float")

\* float(value)
FloatOf(v) ==
    CASE v.k \in {"int", "float"} -> Ok(Micro(v))
      [] v.k = "str" -> ParseFloatStr(v.s)
      [] OTHER -> Raise("TypeError", "float() argument must be a string or a real number")

\* ------------------------------------------------------------------------
\* datetime.strptime for the four formats the date scorer tries
\* ------------------------------------------------------------------------

MonthNames ==
    << <<"j","a","n","u","a","r","y">>,
       <<"f","e","b","r","u","a","r","y">>,
       <<"m","a","r","c","h">>,
       <<"a","p","r","i","l">>,
       <<"m","a","y">>,
       <<"j","u","n","e">>,
       <<"j","u","l","y">>,
       <<"a","u","g","u","s","t">>,
       <<"s","e","p","t","e","m","b","e","r">>,
       <<"o","c","t","o","b","e","r">>,
       <<"n","o","v","e","m","b","e","r">>,
       <<"d","e","c","e","m","b","e","r">> >>

IsLeap(y) == (y % 4 = 0 /\ y % 100 # 0) \/ y % 400 = 0

DaysInMonth(y, m) ==
    IF m = 2 THEN (IF IsLeap(y) THEN 29 ELSE 28)
    ELSE IF m \in {4, 6, 9, 11} THEN 30 ELSE 31

\* the pieces of s between occurrences of the separator character
RECURSIVE SplitOn(_, _, _, _)
SplitOn(s, sep, i, piece) ==
    IF i > Len(s)
    THEN <<piece>>
    ELSE IF s[i] = sep
         THEN <<piece>> \o SplitOn(s, sep, i + 1, <<>>)
         ELSE SplitOn(s, sep, i + 1, Append(piece, s[i]))

\* %Y: exactly four digits
IsYearField(p) == Len(p) = 4 /\ AllDigits(p)
\* %m: 1[0-2] | 0[1-9] | [1-9]
IsMonthField(p) == AllDigits(p) /\ Len(p) <= 2 /\ StrNat(p) \in 1..12
\* %d: 3[01] | [12]\d | 0[1-9] | [1-9] | " "[1-9]
IsDayField(p) ==
    \/ AllDigits(p) /\ Len(p) <= 2 /\ StrNat(p) \in 1..31
    \/ Len(p) = 2 /\ p[1] = " " /\ p[2] \in (DigitChars \ {"0"})
DayOf(p) == IF p[1] = " " THEN StrNat(Tail(p)) ELSE StrNat(p)
\* %B: a full month name, any letter case; 0 when it is none
MonthOfName(p) ==
    IF \E m \in DOMAIN MonthNames : MonthNames[m] = Lower(p)
    THEN CHOOSE m \in DOMAIN MonthNames : MonthNames[m] = Lower(p)
    ELSE 0

\* the datetime constructor accepts year 1..9999 and a day of the month
ValidDate(y, m, d) == y >= 1 /\ m \in 1..12 /\ d \in 1..DaysInMonth(y, m)

\* does datetime.strptime(s, fmt) return (TRUE) or raise ValueError (FALSE)
StrpTime(s, fmt) ==
    CASE fmt = "%Y-%m-%d" ->
            LET p == SplitOn(s, "-", 1, <<>>)
            IN /\ Len(p) = 3
               /\ IsYearField(p[1]) /\ IsMonthField(p[2]) /\ IsDayField(p[3])
               /\ ValidDate(StrNat(p[1]), StrNat(p[2]), DayOf(p[3]))
      [] fmt \in {"%d/%m/%Y", "%d-%m-%Y"} ->
            LET p == SplitOn(s, IF fmt = "%d/%m/%Y" THEN "/" ELSE "-", 1, <<>>)
            IN /\ Len(p) = 3
               /\ IsDayField(p[1]) /\ IsMonthField(p[2]) /\ IsYearField(p[3])
               /\ ValidDate(StrNat(p[3]), StrNat(p[2]), DayOf(p[1]))
      [] fmt = "%d %B %Y" ->
            LET w == Split(s)
            IN /\ s # <<>> /\ s[1] \notin SpaceChars /\ s[Len(s)] \notin SpaceChars
               /\ Len(w) = 3
               /\ IsDayField(w[1]) /\ MonthOfName(w[2]) # 0 /\ IsYearField(w[3])
               /\ ValidDate(StrNat(w[3]), MonthOfName(w[2]), DayOf(w[1]))

DateFormats == <<"%Y-%m-%d", "%d/%m/%Y", "%d-%m-%Y", "%d %B %Y">>

\* ------------------------------------------------------------------------
\* ConfidenceService: the scoring functions
\* ------------------------------------------------------------------------
\* value and original_confidence are nodes (whatever the draft holds),
\* ocr_confidences maps words to floats, original_text is a str.  Each
\* returns Ok(score in millionths) or the exception the Python raises.

RECURSIVE SumSeq(_)
SumSeq(q) == IF q = <<>> THEN 0 ELSE Head(q) + SumSeq(Tail(q))

\* the word confidences added up and not averaged: what C28 is tested against
SumOcrConf(words, ocr_confidences) ==
    SumSeq([i \in DOMAIN words |->
               IF words[i] \in DOMAIN ocr_confidences
               THEN ocr_confidences[words[i]]
               ELSE Tenths(5)])

\* ocr_confidences.get(word, 0.5) for each word, then statistics.mean, or 0.5
\* when there is no word
AvgOcrConf(words, ocr_confidences) ==
    LET word_confs == [i \in DOMAIN words |->
                          IF words[i] \in DOMAIN ocr_confidences
                          THEN ocr_confidences[words[i]]
                          ELSE Tenths(5)]
    IN IF word_confs # <<>> THEN SumSeq(word_confs) \div Len(word_confs) ELSE Tenths(5)

\* `x * 0.4` and the like raise TypeError unless x is a number
NotANumber == Raise("TypeError", "unsupported operand type(s) for *")

\* a name score whose guard is `if not value` alone: what C19 is tested
\* against
name_confidence_no_sentinel(value, original_confidence, ocr_confidences, original_text) ==
    IF Falsy(value)
    THEN Ok(0)
    ELSE IF value.k # "str"
    THEN Raise("AttributeError", "object has no attribute 'split'")
    ELSE IF ~IsNumber(original_confidence)
    THEN NotANumber
    ELSE Ok((Micro(original_confidence) * 4
             + AvgOcrConf(Split(value.s), ocr_confidences) * 3
             + (IF Contains(Lower(original_text), Lower(value.s))
                THEN Tenths(10) ELSE Tenths(3)) * 2
             + (IF ReMatch(NamePattern, value.s, FALSE) THEN Tenths(8) ELSE Tenths(4))) \div 10)

calculate_name_confidence(value, original_confidence, ocr_confidences, original_text) ==
    IF Falsy(value) \/ value = PyStr(<<"U","n","k","n","o","w","n">>)
    THEN Ok(0)
    ELSE IF value.k # "str"
    THEN Raise("AttributeError", "object has no attribute 'split'")
    ELSE IF ~IsNumber(original_confidence)
    THEN NotANumber
    ELSE
        LET base_conf == Micro(original_confidence)
            avg_ocr_conf == AvgOcrConf(Split(value.s), ocr_confidences)
            presence_conf == IF Contains(Lower(original_text), Lower(value.s))
                             THEN Tenths(10) ELSE Tenths(3)
            pattern_conf == IF ReMatch(NamePattern, value.s, FALSE)
                            THEN Tenths(8) ELSE Tenths(4)
        IN Ok((base_conf * 4 + avg_ocr_conf * 3 + presence_conf * 2 + pattern_conf * 1) \div 10)

\* the part of _calculate_pattern_confidence after `value_str = str(value)`
PatternScore(value_str, pats, original_confidence, original_text) ==
    LET pattern_conf == IF \E i \in DOMAIN pats : ReSearch(pats[i], value_str, TRUE)
                        THEN Tenths(9) ELSE Tenths(1)
        presence_conf == IF Contains(Lower(original_text), Lower(value_str))
                         THEN Tenths(10) ELSE Tenths(2)
    IN IF ~IsNumber(original_confidence)
       THEN NotANumber
       ELSE Ok((Micro(original_confidence) * 4 + pattern_conf * 4 + presence_conf * 2) \div 10)

calculate_pattern_confidence(value, pattern_type, original_confidence, original_text) ==
    IF Falsy(value)
    THEN Ok(0)
    ELSE PatternScore(StrOf(value), PatternsFor(pattern_type),
                      original_confidence, original_text)

\* a date sum weighted 0.4, 0.3, 0.3: what C17 is tested against
DateScoreBaseFirst(original_confidence, format_conf, pattern_conf) ==
    IF ~pattern_conf.ok
    THEN pattern_conf
    ELSE Ok((Micro(original_confidence) * 4 + format_conf * 3 + pattern_conf.v * 3) \div 10)

\* the weighted sum that ends _calculate_date_confidence
DateScore(original_confidence, format_conf, pattern_conf) ==
    IF ~pattern_conf.ok
    THEN pattern_conf
    ELSE Ok((Micro(original_confidence) * 3 + format_conf * 4 + pattern_conf.v * 3) \div 10)

\* strptime on a non-str raises TypeError, swallowed by the bare except
calculate_date_confidence(value, original_confidence, original_text) ==
    IF Falsy(value)
    THEN Ok(0)
    ELSE DateScore(original_confidence,
                   IF value.k = "str"
                      /\ \E i \in DOMAIN DateFormats : StrpTime(value.s, DateFormats[i])
                   THEN Tenths(9) ELSE Tenths(1),
                   calculate_pattern_confidence(value, "date", original_confidence,
                                                original_text))

\* the try block of _calculate_marks_confidence, num_val being float(value) or
\* the ValueError or TypeError it raised
\* a range check that ends at 100: what C16 is tested against
NumericConfTo100(num_val) ==
    IF ~num_val.ok THEN Tenths(1)
    ELSE IF 0 <= num_val.v /\ num_val.v <= 100 * Unit THEN Tenths(9)
    ELSE IF num_val.v > 100 * Unit THEN Tenths(5)
    ELSE Tenths(1)

NumericConf(num_val) ==
    IF ~num_val.ok THEN Tenths(1)
    ELSE IF 0 <= num_val.v /\ num_val.v <= 1000 * Unit THEN Tenths(9)
    ELSE IF num_val.v > 1000 * Unit THEN Tenths(5)
    ELSE Tenths(1)

\* a marks score without the `value is None` guard: what C20 is tested
\* against
marks_confidence_unguarded(value, original_confidence, original_text) ==
    IF ~IsNumber(original_confidence)
    THEN NotANumber
    ELSE Ok((Micro(original_confidence) * 4
             + NumericConf(FloatOf(value)) * 4
             + (IF Contains(original_text, StrOf(value))
                THEN Tenths(10) ELSE Tenths(3)) * 2) \div 10)

\* a marks score guarded by `if not value`: what C29 is tested against
marks_confidence_not_value(value, original_confidence, original_text) ==
    IF Falsy(value)
    THEN Ok(0)
    ELSE IF ~IsNumber(original_confidence)
    THEN NotANumber
    ELSE Ok((Micro(original_confidence) * 4
             + NumericConf(FloatOf(value)) * 4
             + (IF Contains(original_text, StrOf(value))
                THEN Tenths(10) ELSE Tenths(3)) * 2) \div 10)

calculate_marks_confidence(value, original_confidence, original_text) ==
    IF value.k = "null"
    THEN Ok(0)
    ELSE
        LET numeric_conf == NumericConf(FloatOf(value))
            value_str == StrOf(value)
            presence_conf == IF Contains(original_text, value_str) THEN Tenths(10) ELSE Tenths(3)
        IN IF ~IsNumber(original_confidence)
           THEN NotANumber
           ELSE Ok((Micro(original_confidence) * 4 + numeric_conf * 4 + presence_conf * 2) \div 10)

calculate_text_confidence(value, original_confidence, ocr_confidences, original_text) ==
    IF Falsy(value)
    THEN Ok(0)
    ELSE IF value.k # "str"
    THEN Raise("AttributeError", "object has no attribute 'lower'")
    ELSE IF ~IsNumber(original_confidence)
    THEN NotANumber
    ELSE
        LET avg_ocr_conf == AvgOcrConf(Split(StrOf(value)), ocr_confidences)
            presence_conf == IF Contains(Lower(original_text), Lower(value.s))
                             THEN Tenths(10) ELSE Tenths(2)
        IN Ok((Micro(original_confidence) * 5 + avg_ocr_conf * 3 + presence_conf * 2) \div 10)

\* ------------------------------------------------------------------------
\* ConfidenceService: the sections
\* ------------------------------------------------------------------------

\* data.get('confidence', 0.5) falls back to this
DefaultConfidence == PyFloat(Tenths(5))

\* the loop's filter: `isinstance(data, dict) and 'value' in data`
IsScoredEntry(data) == IsDict(data) /\ "value" \in DOMAIN data.m

\* a leaf rebuilt with its value as text: what C13 is tested against
ScoredLeafAsText(value, enhanced_conf) ==
    PyDict([value |-> PyStr(StrOf(value)), confidence |-> PyFloat(Min(enhanced_conf, Unit))])

\* {'value': value, 'confidence': min(enhanced_conf, 1.0)}
ScoredLeaf(value, enhanced_conf) ==
    PyDict([value |-> value, confidence |-> PyFloat(Min(enhanced_conf, Unit))])

\* The loop `for field, data in section.items()` shared by the four section
\* processors; Score(field, value, original_confidence) is the section's
\* dispatch.  section.items() raises unless section is a dict.  The loop stops
\* at the first leaf whose scoring raises; a mapping keeps no insertion order,
\* so which raising leaf comes first is left open (only the logged message
\* depends on it).
\* a loop that copies the entries it does not score: what C26 is tested
\* against
EnhancedFieldsKeepingOthers(section, res) ==
    IF \E field \in DOMAIN res : ~res[field].ok
    THEN res[CHOOSE field \in DOMAIN res : ~res[field].ok]
    ELSE Ok(PyDict([field \in DOMAIN section.m |->
                       IF field \in DOMAIN res
                       THEN ScoredLeaf(section.m[field].m["value"], res[field].v)
                       ELSE section.m[field]]))

EnhancedFields(section, res) ==
    IF \E field \in DOMAIN res : ~res[field].ok
    THEN res[CHOOSE field \in DOMAIN res : ~res[field].ok]
    ELSE Ok(PyDict([field \in DOMAIN res |->
                       ScoredLeaf(section.m[field].m["value"], res[field].v)]))

ScoredFields(section) == {field \in DOMAIN section.m : IsScoredEntry(section.m[field])}

ProcessFields(section, Score(_, _, _)) ==
    IF ~IsDict(section)
    THEN Raise("AttributeError", "object has no attribute 'items'")
    ELSE EnhancedFields(section,
                        [field \in ScoredFields(section) |->
                            Score(field,
                                  section.m[field].m["value"],
                                  Get(section.m[field], "confidence", DefaultConfidence))])

process_candidate_details(candidate_data, ocr_confidences, original_text) ==
    LET Score(field, value, original_confidence) ==
            IF field \in {"name", "father_name", "mother_name"}
            THEN calculate_name_confidence(value, original_confidence,
                                           ocr_confidences, original_text)
            ELSE IF field = "roll_no"
            THEN calculate_pattern_confidence(value, "roll_number",
                                              original_confidence, original_text)
            ELSE IF field = "registration_no"
            THEN calculate_pattern_confidence(value, "registration_number",
                                              original_confidence, original_text)
            ELSE IF field = "dob"
            THEN calculate_date_confidence(value, original_confidence, original_text)
            ELSE calculate_text_confidence(value, original_confidence,
                                           ocr_confidences, original_text)
    IN ProcessFields(candidate_data, Score)

\* one subject of the list
ProcessSubject(subject, ocr_confidences, original_text) ==
    LET Score(field, value, original_confidence) ==
            IF field \in {"obtained_marks", "max_marks"}
            THEN calculate_marks_confidence(value, original_confidence, original_text)
            ELSE IF field = "grade"
            THEN calculate_pattern_confidence(value, "grade",
                                              original_confidence, original_text)
            ELSE calculate_text_confidence(value, original_confidence,
                                           ocr_confidences, original_text)
    IN ProcessFields(subject, Score)

\* `for subject in subjects_data`: a list yields its items; a dict yields its
\* keys and a str its characters, neither of which has .items(); anything else
\* is not iterable.
EnhancedSubjects(res) ==
    IF \E i \in DOMAIN res : ~res[i].ok
    THEN res[CHOOSE i \in DOMAIN res : ~res[i].ok /\ \A j \in 1..(i - 1) : res[j].ok]
    ELSE Ok(PyList([i \in DOMAIN res |-> res[i].v]))

process_subjects(subjects_data, ocr_confidences, original_text) ==
    CASE subjects_data.k = "list" ->
            EnhancedSubjects([i \in DOMAIN subjects_data.items |->
                                 ProcessSubject(subjects_data.items[i],
                                                ocr_confidences, original_text)])
      [] subjects_data.k = "dict" ->
            IF DOMAIN subjects_data.m = {}
            THEN Ok(EmptyList)
            ELSE Raise("AttributeError", "object has no attribute 'items'")
      [] subjects_data.k = "str" ->
            IF subjects_data.s = <<>>
            THEN Ok(EmptyList)
            ELSE Raise("AttributeError", "object has no attribute 'items'")
      [] OTHER -> Raise("TypeError", "object is not iterable")

process_overall_result(result_data, ocr_confidences, original_text) ==
    LET Score(field, value, original_confidence) ==
            IF field = "percentage"
            THEN calculate_pattern_confidence(value, "percentage",
                                              original_confidence, original_text)
            ELSE IF field \in {"result", "grade"}
            THEN calculate_pattern_confidence(value, "grade",
                                              original_confidence, original_text)
            ELSE IF field \in {"total_marks", "max_total_marks"}
            THEN calculate_marks_confidence(value, original_confidence, original_text)
            ELSE calculate_text_confidence(value, original_confidence,
                                           ocr_confidences, original_text)
    IN ProcessFields(result_data, Score)

\* a document_info processor without the date branch: what C14 is tested
\* against
process_as_text(doc_data, ocr_confidences, original_text) ==
    LET Score(field, value, original_confidence) ==
            calculate_text_confidence(value, original_confidence,
                                      ocr_confidences, original_text)
    IN ProcessFields(doc_data, Score)

process_document_info(doc_data, ocr_confidences, original_text) ==
    LET Score(field, value, original_confidence) ==
            IF field = "issue_date"
            THEN calculate_date_confidence(value, original_confidence, original_text)
            ELSE calculate_text_confidence(value, original_confidence,
                                           ocr_confidences, original_text)
    IN ProcessFields(doc_data, Score)

\* The body of the try block of calculate_confidence_scores: the enhanced
\* record, or the first exception raised while building it.
EnhancedData(cd, su, ov, di) ==
    IF ~cd.ok THEN cd
    ELSE IF ~su.ok THEN su
    ELSE IF ~ov.ok THEN ov
    ELSE IF ~di.ok THEN di
    ELSE Ok(PyDict([candidate_details |-> cd.v, subjects |-> su.v,
                    overall_result |-> ov.v, document_info |-> di.v]))

ScoreSections(structured_data, ocr_confidences, original_text) ==
    EnhancedData(
        process_candidate_details(Get(structured_data, "candidate_details", EmptyDict),
                                  ocr_confidences, original_text),
        process_subjects(Get(structured_data, "subjects", EmptyList),
                         ocr_confidences, original_text),
        process_overall_result(Get(structured_data, "overall_result", EmptyDict),
                               ocr_confidences, original_text),
        process_document_info(Get(structured_data, "document_info", EmptyDict),
                              ocr_confidences, original_text))

\* an except branch that returns an empty draft: what C2 is tested against
ReturnedEmpty(enhanced_data, structured_data) ==
    IF enhanced_data.ok THEN enhanced_data.v ELSE EmptyDict

\* the return of calculate_confidence_scores: `return enhanced_data` at the end
\* of the try block, `return structured_data` in the except branch
Returned(enhanced_data, structured_data) ==
    IF enhanced_data.ok THEN enhanced_data.v ELSE structured_data

calculate_confidence_scores(structured_data, ocr_confidences, original_text) ==
    Returned(ScoreSections(structured_data, ocr_confidences, original_text), structured_data)

\* ------------------------------------------------------------------------
\* The provider's raw reply and json.loads
\* ------------------------------------------------------------------------
\* A reply is a sequence of tokens: the six JSON punctuation marks, a scalar
\* literal (a string, a number or null) and "x" for any other text (prose, a
\* code fence).  str.find('{') and str.rfind('}') see the brace tokens; a
\* string literal holding a brace is outside the tokens enumerated.  The
\* literals true, false, NaN and Infinity are left out.

LBrace == [t |-> "{"]
RBrace == [t |-> "}"]
LBrack == [t |-> "["]
RBrack == [t |-> "]"]
Comma == [t |-> ","]
Colon == [t |-> ":"]
Junk == [t |-> "x"]
Scalar(v) == [t |-> "lit", v |-> v]

\* A dict's keys are kept as names; this is the text of each name the
\* drafts use.  A string literal in key position that is none of these is
\* filed under the key "other".
KeyText ==
    [ candidate_details |-> <<"c","a","n","d","i","d","a","t","e","_","d","e","t","a","i","l","s">>,
      subjects |-> <<"s","u","b","j","e","c","t","s">>,
      overall_result |-> <<"o","v","e","r","a","l","l","_","r","e","s","u","l","t">>,
      document_info |-> <<"d","o","c","u","m","e","n","t","_","i","n","f","o">>,
      value |-> <<"v","a","l","u","e">>,
      confidence |-> <<"c","o","n","f","i","d","e","n","c","e">>,
      name |-> <<"n","a","m","e">>,
      father_name |-> <<"f","a","t","h","e","r","_","n","a","m","e">>,
      mother_name |-> <<"m","o","t","h","e","r","_","n","a","m","e">>,
      roll_no |-> <<"r","o","l","l","_","n","o">>,
      registration_no |-> <<"r","e","g","i","s","t","r","a","t","i","o","n","_","n","o">>,
      dob |-> <<"d","o","b">>,
      exam_year |-> <<"e","x","a","m","_","y","e","a","r">>,
      board_university |-> <<"b","o","a","r","d","_","u","n","i","v","e","r","s","i","t","y">>,
      institution |-> <<"i","n","s","t","i","t","u","t","i","o","n">>,
      subject |-> <<"s","u","b","j","e","c","t">>,
      max_marks |-> <<"m","a","x","_","m","a","r","k","s">>,
      obtained_marks |-> <<"o","b","t","a","i","n","e","d","_","m","a","r","k","s">>,
      max_credits |-> <<"m","a","x","_","c","r","e","d","i","t","s">>,
      obtained_credits |-> <<"o","b","t","a","i","n","e","d","_","c","r","e","d","i","t","s">>,
      grade |-> <<"g","r","a","d","e">>,
      result |-> <<"r","e","s","u","l","t">>,
      percentage |-> <<"p","e","r","c","e","n","t","a","g","e">>,
      cgpa |-> <<"c","g","p","a">>,
      total_marks |-> <<"t","o","t","a","l","_","m","a","r","k","s">>,
      max_total_marks |-> <<"m","a","x","_","t","o","t","a","l","_","m","a","r","k","s">>,
      issue_date |-> <<"i","s","s","u","e","_","d","a","t","e">>,
      issue_place |-> <<"i","s","s","u","e","_","p","l","a","c","e">>,
      document_type |-> <<"d","o","c","u","m","e","n","t","_","t","y","p","e">>,
      serial_number |-> <<"s","e","r","i","a","l","_","n","u","m","b","e","r">>,
      notes |-> <<"n","o","t","e","s">> ]

KeyOf(chars) ==
    IF \E key \in DOMAIN KeyText : KeyText[key] = chars
    THEN CHOOSE key \in DOMAIN KeyText : KeyText[key] = chars
    ELSE "other"

\* The order in which json.dumps-like text lists a dict's keys (the order of
\* the prompt's schema), used to write a draft out as a reply.
KeyOrder ==
    << "candidate_details", "subjects", "overall_result", "document_info",
       "value", "confidence", "name", "father_name",
       "mother_name", "roll_no", "registration_no", "dob",
       "exam_year", "board_university", "institution", "subject",
       "max_marks", "obtained_marks", "max_credits", "obtained_credits",
       "grade", "result", "percentage", "cgpa",
       "total_marks", "max_total_marks", "issue_date", "issue_place",
       "document_type", "serial_number", "notes" >>

RECURSIVE Dump(_)
RECURSIVE DumpItems(_, _)
RECURSIVE DumpMembers(_, _, _)

\* the tokens of a value written as JSON
Dump(v) ==
    CASE v.k = "dict" -> <<LBrace>> \o DumpMembers(v.m, 1, TRUE) \o <<RBrace>>
      [] v.k = "list" -> <<LBrack>> \o DumpItems(v.items, 1) \o <<RBrack>>
      [] OTHER -> <<Scalar(v)>>

DumpItems(items, i) ==
    IF i > Len(items)
    THEN <<>>
    ELSE (IF i > 1 THEN <<Comma>> ELSE <<>>) \o Dump(items[i]) \o DumpItems(items, i + 1)

DumpMembers(m, n, first) ==
    IF n > Len(KeyOrder)
    THEN <<>>
    ELSE IF KeyOrder[n] \in DOMAIN m
         THEN (IF first THEN <<>> ELSE <<Comma>>)
              \o <<Scalar(PyStr(KeyText[KeyOrder[n]])), Colon>>
              \o Dump(m[KeyOrder[n]])
              \o DumpMembers(m, n + 1, FALSE)
         ELSE DumpMembers(m, n + 1, first)

\* A parse step: the value read and the index of the next token, or failure.
Parsed(v, next) == [ok |-> TRUE, v |-> v, next |-> next]
ParseError == [ok |-> FALSE]

RECURSIVE ParseValue(_, _)
RECURSIVE ParseMembers(_, _, _)
RECURSIVE ParseItems(_, _, _)

TokAt(toks, i) == IF i \in DOMAIN toks THEN toks[i] ELSE [t |-> "eof"]

\* value := object | array | literal
ParseValue(toks, i) ==
    LET tok == TokAt(toks, i)
    IN CASE tok.t = "lit" -> Parsed(tok.v, i + 1)
         [] tok.t = "{" ->
                IF TokAt(toks, i + 1).t = "}"
                THEN Parsed(EmptyDict, i + 2)
                ELSE ParseMembers(toks, i + 1, EmptyMap)
         [] tok.t = "[" ->
                IF TokAt(toks, i + 1).t = "]"
                THEN Parsed(EmptyList, i + 2)
                ELSE ParseItems(toks, i + 1, <<>>)
         [] OTHER -> ParseError

\* string ":" value, then "," and another member, or "}".  A repeated key
\* keeps the last value.
ParseMembers(toks, i, m) ==
    LET key == TokAt(toks, i)
    IN IF key.t = "lit" /\ key.v.k = "str" /\ TokAt(toks, i + 1).t = ":"
       THEN LET val == ParseValue(toks, i + 2)
            IN IF ~val.ok
               THEN ParseError
               ELSE LET m2 == Put(m, KeyOf(key.v.s), val.v)
                    IN CASE TokAt(toks, val.next).t = "," -> ParseMembers(toks, val.next + 1, m2)
                         [] TokAt(toks, val.next).t = "}" -> Parsed(PyDict(m2), val.next + 1)
                         [] OTHER -> ParseError
       ELSE ParseError

\* value, then "," and another item, or "]"
ParseItems(toks, i, items) ==
    LET val == ParseValue(toks, i)
    IN IF ~val.ok
       THEN ParseError
       ELSE CASE TokAt(toks, val.next).t = "," ->
                    ParseItems(toks, val.next + 1, Append(items, val.v))
              [] TokAt(toks, val.next).t = "]" ->
                    Parsed(PyList(Append(items, val.v)), val.next + 1)
              [] OTHER -> ParseError

\* json.loads: one value and nothing after it, else JSONDecodeError
json_loads(toks) ==
    LET val == ParseValue(toks, 1)
    IN IF val.ok /\ val.next = Len(toks) + 1
       THEN Ok(val.v)
       ELSE Raise("JSONDecodeError", "Expecting value")

\* ------------------------------------------------------------------------
\* LLMService: parsing and repairing the reply
\* ------------------------------------------------------------------------

\* a check that takes 0.0 and 1.0 for invalid: what C30 is tested against
RECURSIVE validate_exclusive(_)
validate_exclusive(obj) ==
    CASE obj.k = "dict" ->
            IF "confidence" \in DOMAIN obj.m
            THEN LET conf == obj.m["confidence"]
                 IN IF ~IsNumber(conf) \/ Micro(conf) <= 0 \/ Micro(conf) >= Unit
                    THEN PyDict(Put(obj.m, "confidence", PyFloat(0)))
                    ELSE obj
            ELSE PyDict([key \in DOMAIN obj.m |-> validate_exclusive(obj.m[key])])
      [] obj.k = "list" ->
            PyList([i \in DOMAIN obj.items |-> validate_exclusive(obj.items[i])])
      [] OTHER -> obj

\* validate_recursive: a dict holding a 'confidence' key has that confidence
\* checked and is not descended into; any other dict and every list is
\* walked.
RECURSIVE validate_confidence_scores(_)
validate_confidence_scores(obj) ==
    CASE obj.k = "dict" ->
            IF "confidence" \in DOMAIN obj.m
            THEN LET conf == obj.m["confidence"]
                 IN IF ~IsNumber(conf) \/ Micro(conf) < 0 \/ Micro(conf) > Unit
                    THEN PyDict(Put(obj.m, "confidence", PyFloat(0)))
                    ELSE obj
            ELSE PyDict([key \in DOMAIN obj.m |-> validate_confidence_scores(obj.m[key])])
      [] obj.k = "list" ->
            PyList([i \in DOMAIN obj.items |-> validate_confidence_scores(obj.items[i])])
      [] OTHER -> obj

required_sections == <<"candidate_details", "subjects", "overall_result", "document_info">>

RECURSIVE AddMissingSections(_, _)
AddMissingSections(m, n) ==
    IF n > Len(required_sections)
    THEN m
    ELSE AddMissingSections(
             IF required_sections[n] \in DOMAIN m THEN m ELSE Put(m, required_sections[n], EmptyDict),
             n + 1)

\* a repair pass that checks the confidences only: what C10 is tested against
OnlyConfidences(data) == validate_confidence_scores(data)

\* _validate_structure(data), data a dict: the draft as it is left in place
validate_structure(data) ==
    LET withSections == AddMissingSections(data.m, 1)
        withList == IF ~IsList(withSections["subjects"])
                    THEN Put(withSections, "subjects", EmptyList)
                    ELSE withSections
    IN validate_confidence_scores(PyDict(withList))

NoJsonFound == Raise("ValueError", "No JSON found in LLM response")
InvalidJson == Raise("ValueError", "Invalid JSON from LLM")

\* response.find('{'): the index of the first brace, from 0, or -1
FindLBrace(response) ==
    IF \E i \in DOMAIN response : response[i] = LBrace
    THEN (CHOOSE i \in DOMAIN response :
              response[i] = LBrace /\ \A j \in 1..(i - 1) : response[j] # LBrace) - 1
    ELSE -1

\* rfind taken to find a brace at the end of every reply: what C9 is tested
\* against
LastIndex(response) == Len(response) - 1

\* response.rfind('}'): the index of the last brace, from 0, or -1
RFindRBrace(response) ==
    IF \E i \in DOMAIN response : response[i] = RBrace
    THEN (CHOOSE i \in DOMAIN response :
              response[i] = RBrace /\ \A j \in (i + 1)..Len(response) : response[j] # RBrace) - 1
    ELSE -1

\* response[a:b] for 0 <= a and 0 <= b <= len
Slice(response, a, b) == SubSeq(response, a + 1, b)

\* a parser that answers an empty draft to every reply: what C7 is tested
\* against
AnyReplyParses(response) == Ok(validate_structure(EmptyDict))

\* _parse_llm_response: Ok(the repaired draft) or the ValueError raised
parse_llm_response(response) ==
    LET json_start == FindLBrace(response)
        json_end == RFindRBrace(response) + 1
    IN IF json_start = -1 \/ json_end = 0
       THEN NoJsonFound
       ELSE LET json_str == Slice(response, json_start, json_end)
                data == json_loads(json_str)
            IN IF ~data.ok THEN InvalidJson ELSE Ok(validate_structure(data.v))

\* ------------------------------------------------------------------------
\* response_models: the typed record (pydantic validation)
\* ------------------------------------------------------------------------
\* Validation of a declared model from a dict: a required field must be
\* present and valid, an Optional field may be absent or null, keys that are
\* not declared are ignored.  A typed record is written as a dict holding the
\* declared fields that are set.

ValidationError == Raise("ValidationError", "validation error")

\* confidence: float = Field(..., ge=0.0, le=1.0): a number, or a string that
\* reads as one, within the declared range
InRange(f) == IF f.ok /\ 0 <= f.v /\ f.v <= Unit THEN Ok(PyFloat(f.v)) ELSE ValidationError

ConfidenceField(v) ==
    InRange(IF v.k = "str" THEN ParseFloatStr(v.s)
            ELSE IF IsNumber(v) THEN Ok(Micro(v))
            ELSE ValidationError)

\* a value field that accepts anything: what C5 is tested against
AnyValue(v) == Ok(v)

\* value: Union[str, int, float, None] = None
ValueField(v) == IF v.k \in {"str", "int", "float", "null"} THEN Ok(v) ELSE ValidationError

\* the model instance of two validated fields, or the validation error
FieldOf(v, c) ==
    IF c.ok /\ v.ok THEN Ok(PyDict([value |-> v.v, confidence |-> c.v])) ELSE ValidationError

\* FieldWithConfidence(value=value, confidence=confidence)
FieldWithConfidence(value, confidence) ==
    FieldOf(ValueField(value), ConfidenceField(confidence))

\* a FieldWithConfidence read from a dict: 'confidence' is required
ParseField(obj) ==
    IF IsDict(obj) /\ "confidence" \in DOMAIN obj.m
    THEN FieldWithConfidence(Get(obj, "value", PyNone), obj.m["confidence"])
    ELSE ValidationError

\* the model instance of validated fields, or the validation error
ModelOf(parsed) ==
    IF \A f \in DOMAIN parsed : parsed[f].ok
    THEN Ok(PyDict([f \in DOMAIN parsed |-> parsed[f].v]))
    ELSE ValidationError

\* the declared fields a dict sets: an Optional field given as null is unset
FieldsSet(obj, required, optional) ==
    {f \in required \cup optional :
        f \in DOMAIN obj.m /\ (f \in required \/ obj.m[f] # PyNone)}

\* a model whose fields are all FieldWithConfidence, read from a dict
ParseFields(obj, required, optional) ==
    IF ~IsDict(obj)
    THEN ValidationError
    ELSE IF ~(required \subseteq DOMAIN obj.m)
    THEN ValidationError
    ELSE ModelOf([f \in FieldsSet(obj, required, optional) |-> ParseField(obj.m[f])])

CandidateDetails(obj) ==
    ParseFields(obj, {"name", "roll_no"},
                {"father_name", "mother_name", "registration_no", "dob",
                 "exam_year", "board_university", "institution"})

Subject(obj) ==
    ParseFields(obj, {"subject", "obtained_marks"},
                {"max_marks", "max_credits", "obtained_credits", "grade"})

OverallResult(obj) ==
    ParseFields(obj, {},
                {"result", "grade", "percentage", "cgpa", "total_marks", "max_total_marks"})

DocumentInfo(obj) ==
    ParseFields(obj, {}, {"issue_date", "issue_place", "document_type", "serial_number"})

\* subjects: List[Subject]
SubjectList(su) ==
    IF IsList(su) THEN [i \in DOMAIN su.items |-> Subject(su.items[i])] ELSE <<ValidationError>>

\* the ExtractedData instance of four validated sections, or the validation error
ExtractedDataOf(cd, su, ov, di) ==
    IF cd.ok /\ ov.ok /\ di.ok /\ \A i \in DOMAIN su : su[i].ok
    THEN Ok(PyDict([candidate_details |-> cd.v,
                    subjects |-> PyList([i \in DOMAIN su |-> su[i].v]),
                    overall_result |-> ov.v,
                    document_info |-> di.v]))
    ELSE ValidationError

\* ExtractedData.parse_obj(data): the four sections are all required
ExtractedData(data) ==
    IF ~IsDict(data)
    THEN ValidationError
    ELSE IF ~({"candidate_details", "subjects", "overall_result", "document_info"}
              \subseteq DOMAIN data.m)
    THEN ValidationError
    ELSE ExtractedDataOf(CandidateDetails(data.m["candidate_details"]),
                         SubjectList(data.m["subjects"]),
                         OverallResult(data.m["overall_result"]),
                         DocumentInfo(data.m["document_info"]))

\* ------------------------------------------------------------------------
\* ExtractionService: validation, the fallback and the summary
\* ------------------------------------------------------------------------

Unknown == PyStr(<<"U","n","k","n","o","w","n">>)
LowConfidence == PyFloat(Tenths(1))

\* _create_minimal_response(data), data a dict: .get on a candidate_details,
\* name or roll_no that is not a dict raises AttributeError, and
\* FieldWithConfidence raises ValidationError on what it does not accept.
MinimalResponseOf(name, roll_no) ==
    IF ~name.ok THEN name
    ELSE IF ~roll_no.ok THEN roll_no
    ELSE Ok(PyDict([candidate_details |-> PyDict([name |-> name.v, roll_no |-> roll_no.v]),
                    subjects |-> EmptyList,
                    overall_result |-> EmptyDict,
                    document_info |-> EmptyDict]))

\* the name or roll_no of the fallback, read from what data.get(..) returned
MinimalField(entry) ==
    FieldWithConfidence(Get(entry, "value", Unknown), Get(entry, "confidence", LowConfidence))

MinimalCandidate(cd) ==
    IF ~IsDict(cd) \/ ~IsDict(Get(cd, "name", EmptyDict))
    THEN Raise("AttributeError", "object has no attribute 'get'")
    ELSE IF ~MinimalField(Get(cd, "name", EmptyDict)).ok
    THEN ValidationError
    ELSE IF ~IsDict(Get(cd, "roll_no", EmptyDict))
    THEN Raise("AttributeError", "object has no attribute 'get'")
    ELSE MinimalResponseOf(MinimalField(Get(cd, "name", EmptyDict)),
                           MinimalField(Get(cd, "roll_no", EmptyDict)))

create_minimal_response(data) == MinimalCandidate(Get(data, "candidate_details", EmptyDict))

\* _validate_extracted_data: parse_obj, and on any exception the fallback
OrMinimal(parsed, data) == IF parsed.ok THEN parsed ELSE create_minimal_response(data)

validate_extracted_data(data) == OrMinimal(ExtractedData(data), data)

\* _extract_confidence_summary(data), data a typed record
extract_confidence_summary(data) ==
    LET cd == data.m["candidate_details"].m
        su == data.m["subjects"].items
        ov == data.m["overall_result"].m
        subject_confidences == [i \in DOMAIN su |-> su[i].m["subject"].m["confidence"].n]
        keys == {"name", "roll_no"}
                \cup (IF subject_confidences # <<>> THEN {"subjects_avg"} ELSE {})
                \cup (IF "result" \in DOMAIN ov THEN {"result"} ELSE {})
    IN [key \in keys |->
           CASE key = "name" -> cd["name"].m["confidence"].n
             [] key = "roll_no" -> cd["roll_no"].m["confidence"].n
             [] key = "subjects_avg" -> SumSeq(subject_confidences) \div Len(subject_confidences)
             [] key = "result" -> ov["result"].m["confidence"].n]

\* ------------------------------------------------------------------------
\* Inputs enumerated
\* ------------------------------------------------------------------------

S(word) == PyStr(word)
Conf(hundredths) == PyFloat(Hundredths(hundredths))
Leaf(value, confidence) == PyDict([value |-> value, confidence |-> confidence])

vAlBo == <<"A","l"," ","B","o">>
vRoll == <<"A","B","1","2","3","4","5","6">>
vDate == <<"2","0","2","1","-","0","5","-","0","4">>
vHigh == <<"h","i","g","h">>
vPass == <<"P","a","s","s">>
vMaths == <<"M","a","t","h","s">>

\* what recognition can return: blank texts, and a marksheet's text with or
\* without word confidences
SheetText == vAlBo \o <<" ">> \o vRoll \o <<" ">> \o vMaths \o <<" ","8","5"," ">> \o vPass
OcrResults ==
    { [text |-> <<>>, word_confidences |-> <<>>],
      [text |-> <<" ", "\n">>, word_confidences |-> <<>>],
      [text |-> SheetText, word_confidences |-> <<>>],
      [text |-> SheetText,
       word_confidences |-> (<<"A","l">> :> Tenths(9)) @@ (<<"B","o">> :> Tenths(7))
                            @@ (<<"8","5">> :> Tenths(4))],
      [text |-> <<"8","5">>, word_confidences |-> (<<"8","5">> :> Tenths(10))],
      [text |-> SheetText \o <<" ">> \o vDate,
       word_confidences |-> (<<"A","l">> :> Tenths(10)) @@ (<<"B","o">> :> Tenths(10))] }

\* entries a section can hold under a field name
NameEntries ==
    { Leaf(S(vAlBo), Conf(90)),                      \* as the prompt asks
      Leaf(PyNone, Conf(0)),                         \* "not found"
      Leaf(Unknown, Conf(50)),
      Leaf(S(<<>>), Conf(80)),                       \* an empty name
      Leaf(S(vAlBo), S(vHigh)),                      \* garbage confidence
      Leaf(S(vAlBo), Conf(-100)),
      Leaf(S(vAlBo), PyInt(5)),
      Leaf(EmptyList, Conf(90)),                     \* a value that is no scalar
      Leaf(PyInt(7), Conf(90)),
      PyDict([value |-> S(vAlBo)]),                  \* no confidence
      PyDict([confidence |-> Conf(70)]),             \* no value
      EmptyDict,
      S(vAlBo) }                                     \* a bare scalar

RollEntries ==
    { Leaf(S(vRoll), Conf(100)),
      Leaf(PyInt(1234), Conf(80)),
      Leaf(PyNone, Conf(0)),
      Leaf(PyList(<<S(vRoll)>>), Conf(90)),
      PyDict([value |-> S(vRoll)]),
      PyInt(1234) }

\* a third candidate_details entry: a date, a year given as a number or as text
OtherEntries ==
    { [key |-> "dob", e |-> Leaf(S(vDate), Conf(50))],
      [key |-> "exam_year", e |-> Leaf(PyInt(2021), Conf(90))],
      [key |-> "exam_year", e |-> Leaf(S(<<"2","0","2","1">>), Conf(90))],
      [key |-> "confidence", e |-> Conf(50)],        \* a stray key on the section
      [key |-> "issue_date", e |-> Leaf(S(vDate), Conf(50))],
      [key |-> "institution", e |-> Leaf(S(vAlBo), Conf(60))],
      [key |-> "dob", e |-> Leaf(PyNone, Conf(70))] }

Absent == [k |-> "absent"]

\* a mapping from the entries that are given (at most one per key)
Section(pairs) ==
    LET given == {i \in DOMAIN pairs : pairs[i].e # Absent}
    IN PyDict([key \in {pairs[i].key : i \in given} |->
                  pairs[CHOOSE i \in given : pairs[i].key = key].e])

\* a section whose leaves hold no value, each with the confidence a provider
\* may still report
NullCandidate ==
    PyDict([name |-> Leaf(S(vAlBo), Conf(90)),
            roll_no |-> Leaf(PyNone, Conf(90)),
            father_name |-> Leaf(PyNone, Conf(60)),
            mother_name |-> Leaf(S(<<>>), Conf(60)),
            registration_no |-> Leaf(PyNone, Conf(70)),
            dob |-> Leaf(PyNone, Conf(70)),
            institution |-> Leaf(PyNone, Conf(70))])

GoodCandidate ==
    Section(<< [key |-> "name", e |-> Leaf(S(vAlBo), Conf(90))],
               [key |-> "roll_no", e |-> Leaf(S(vRoll), Conf(100))] >>)

CandidateSections ==
    { Section(<< [key |-> "name", e |-> n], [key |-> "roll_no", e |-> r], o >>) :
          n \in NameEntries \cup {Absent},
          r \in RollEntries \cup {Absent},
          o \in OtherEntries \cup {[key |-> "dob", e |-> Absent]} }
    \cup { NullCandidate, EmptyList, PyNone, S(vAlBo) }

GoodSubject ==
    PyDict([subject |-> Leaf(S(vMaths), Conf(95)),
            obtained_marks |-> Leaf(PyInt(85), Conf(50)),
            grade |-> Leaf(S(<<"A">>), Conf(90))])

NullSubject ==
    PyDict([subject |-> Leaf(PyNone, Conf(95)),
            obtained_marks |-> Leaf(PyNone, Conf(96)),
            grade |-> Leaf(PyNone, Conf(92))])

\* what a subjects list can hold
SubjectItems ==
    { GoodSubject,
      PyDict([subject |-> Leaf(S(vMaths), Conf(95)),
              obtained_marks |-> Leaf(S(<<"8","5">>), S(vHigh)),
              max_credits |-> Leaf(PyInt(4), Conf(90))]),
      PyDict([obtained_marks |-> Leaf(PyInt(0), Conf(150))]),
      PyDict([obtained_marks |-> Leaf(PyInt(1200), Conf(50)),
              max_marks |-> Leaf(S(<<"A","B">>), Conf(50))]),
      PyDict([obtained_marks |-> Leaf(PyInt(-5), Conf(50)),
              max_marks |-> Leaf(PyFloat(Tenths(1000)), Conf(98))]),
      NullSubject,
      PyInt(3) }

\* longest subjects list enumerated
MaxSubjects == 1

RECURSIVE ListsUpTo(_, _)
ListsUpTo(items, n) ==
    IF n = 0
    THEN {<<>>}
    ELSE LET shorter == ListsUpTo(items, n - 1)
         IN shorter \cup {Append(q, i) : q \in {x \in shorter : Len(x) = n - 1}, i \in items}

SubjectsValues ==
    {PyList(q) : q \in ListsUpTo(SubjectItems, MaxSubjects)}
    \cup { Absent, GoodSubject, S(vMaths), PyNone }

NullOverall ==
    PyDict([percentage |-> Leaf(PyNone, Conf(85)),
            total_marks |-> Leaf(PyNone, Conf(90)),
            cgpa |-> Leaf(PyNone, Conf(80))])

OverallValues ==
    { Absent, EmptyDict,
      PyDict([result |-> Leaf(S(vPass), Conf(98)),
              percentage |-> Leaf(PyFloat(Tenths(785)), Conf(85)),
              total_marks |-> Leaf(PyInt(425), Conf(90))]),
      PyDict([cgpa |-> Leaf(PyFloat(Tenths(85)), Conf(80))]),
      PyDict([result |-> Leaf(S(vMaths), Conf(80)),
              percentage |-> Leaf(PyInt(0), Conf(85))]),
      NullOverall,
      EmptyList }

DocumentValues ==
    { Absent, EmptyDict,
      PyDict([issue_date |-> Leaf(S(vDate), Conf(80)),
              serial_number |-> Leaf(S(vRoll), PyNone)]),
      PyDict([dob |-> Leaf(S(vDate), Conf(80))]),
      PyDict([issue_date |-> Leaf(S(vMaths), Conf(80)),
              issue_place |-> Leaf(S(vAlBo), Conf(75))]),
      PyDict([issue_date |-> Leaf(PyNone, Conf(80))]),
      PyDict([serial_number |-> Leaf(S(<<"8","5">>), Conf(100))]),
      PyInt(1) }

\* a reply whose values are empty texts and numeric zeros
ZeroCandidate ==
    PyDict([name |-> Leaf(S(vAlBo), Conf(90)),
            roll_no |-> Leaf(S(<<>>), Conf(90)),
            registration_no |-> Leaf(PyInt(0), Conf(70)),
            dob |-> Leaf(PyInt(0), Conf(70)),
            institution |-> Leaf(S(<<>>), Conf(70))])

ZeroSubject ==
    PyDict([subject |-> Leaf(PyInt(0), Conf(95)),
            obtained_marks |-> Leaf(PyInt(0), Conf(50)),
            max_marks |-> Leaf(PyFloat(0), Conf(98)),
            obtained_credits |-> Leaf(S(<<>>), Conf(88)),
            grade |-> Leaf(S(<<>>), Conf(92))])

ZeroOverall ==
    PyDict([percentage |-> Leaf(PyFloat(0), Conf(85)),
            total_marks |-> Leaf(PyInt(0), Conf(100)),
            grade |-> Leaf(PyInt(0), Conf(90))])

ZeroDocument ==
    PyDict([issue_date |-> Leaf(S(<<>>), Conf(80)),
            issue_place |-> Leaf(PyFloat(0), Conf(75))])

\* the top-level object of a reply
Draft(cd, su, ov, di) ==
    Section(<< [key |-> "candidate_details", e |-> cd], [key |-> "subjects", e |-> su],
               [key |-> "overall_result", e |-> ov], [key |-> "document_info", e |-> di] >>)

Drafts ==
    { Draft(cd, PyList(<<GoodSubject>>), EmptyDict, EmptyDict) :
          cd \in CandidateSections \cup {Absent} }
    \cup { Draft(GoodCandidate, su, ov, di) :
               su \in SubjectsValues, ov \in OverallValues, di \in DocumentValues }
    \cup { Draft(NullCandidate, PyList(<<NullSubject>>), NullOverall,
                 PyDict([issue_date |-> Leaf(PyNone, Conf(80))])) }
    \cup { Draft(ZeroCandidate, PyList(<<ZeroSubject>>), ZeroOverall, ZeroDocument) }
    \cup { Section(<< [key |-> "candidate_details", e |-> GoodCandidate],
                      [key |-> "subjects", e |-> PyList(<<GoodSubject>>)],
                      [key |-> "notes", e |-> o] >>) :
               o \in {S(vAlBo), Leaf(S(vAlBo), Conf(90))} }   \* a key outside the schema

\* every token sequence of at most n tokens over the alphabet
RawAlphabet == {LBrace, RBrace, Junk, Scalar(S(KeyText["subjects"])), Colon}

RawReplies == ListsUpTo(RawAlphabet, MaxReplyLen)

\* a well-formed reply, and the ways a provider spoils one
Spoiled(toks) ==
    { toks,
      <<Junk>> \o toks \o <<Junk>>,                   \* prose around the JSON
      SubSeq(toks, 1, Len(toks) - 1),                 \* the closing brace missing
      Tail(toks),                                     \* the opening brace missing
      <<Head(toks), Junk>> \o Tail(toks),             \* text inside the object
      toks \o toks }                                  \* two objects

Replies ==
    {Dump(d) : d \in Drafts}
    \cup UNION {Spoiled(Dump(d)) :
                    d \in {Draft(GoodCandidate, su, Absent, Absent) : su \in SubjectsValues}}
    \cup RawReplies

\* ------------------------------------------------------------------------
\* ExtractionService.extract_marksheet_data: one request
\* ------------------------------------------------------------------------

VARIABLES
    pc,               \* where the coroutine stands
    file,             \* the upload: does its name carry an extension
    ocr_result,       \* what extract_text returned
    response,         \* the provider's raw reply
    structured_data,  \* the draft structure_marksheet_data returned
    enhanced_data,    \* what calculate_confidence_scores returned
    result,           \* what the caller gets: an ExtractionResult or an exception
    calls,            \* the stages invoked so far, in order
    invocations,      \* the engine's calls so far: what it was given and returned
    requests,         \* the locals of each of the requests running concurrently
    endpoint,         \* the route of the HTTP request: "extract" or "batch"
    credentials,      \* the api_key argument: the bearer credentials, or None
    files,            \* the uploads of the HTTP request
    api_pc,           \* where the endpoint's handler stands
    file_index,       \* the position of `for file in files`
    results,          \* the handler's results list
    errors,           \* the handler's errors list
    api_calls,        \* the validations and extractions the handler started
    http_response     \* the response the client receives

\* one run of extract_marksheet_data
pipelineVars ==
    <<pc, file, ocr_result, response, structured_data, enhanced_data, result, calls>>

\* the endpoint's handler
apiVars ==
    <<endpoint, credentials, files, api_pc, file_index, results, errors, api_calls,
      http_response>>

\* what one run of extract_marksheet_data leaves alone
serviceVars == <<self_patterns, invocations, requests, apiVars>>

vars == <<pipelineVars, serviceVars>>

None == [k |-> "none"]

\* LLMService.get_model_name with the provider "gemini"
get_model_name == "gemini-gemini-pro"

ExtractionResult(data) ==
    [kind |-> "result", data |-> data, model_used |-> get_model_name,
     confidence_scores |-> extract_confidence_summary(data)]

Exception(e) == [kind |-> "error", type |-> e.type, msg |-> e.msg]

NoFileType == Raise("ValueError", "Unable to determine file type from filename")
NoText == Raise("ValueError", "No text could be extracted from the document")
OcrFailed == Raise("ValueError", "OCR processing failed")
ProviderFailed == Raise("ProviderError", "query failed")

\* no endpoint is being served
NoHttpRequest ==
    /\ endpoint = None
    /\ credentials = None
    /\ files = <<>>
    /\ api_pc = "idle"
    /\ file_index = 0
    /\ results = <<>>
    /\ errors = <<>>
    /\ api_calls = <<>>
    /\ http_response = None

Init ==
    /\ pc = "start"
    /\ file \in [has_extension : BOOLEAN]
    /\ ocr_result = None
    /\ response = None
    /\ structured_data = None
    /\ enhanced_data = None
    /\ result = None
    /\ calls = <<>>
    /\ self_patterns = patterns
    /\ invocations = <<>>
    /\ requests = <<>>
    /\ NoHttpRequest

\* the exception leaves extract_marksheet_data (`except: raise`)
Fail(e) ==
    /\ pc' = "failed"
    /\ result' = Exception(e)

\* file.read() and the extension of the filename
ReadFile ==
    /\ pc = "start"
    /\ IF file.has_extension
       THEN pc' = "ocr" /\ UNCHANGED result
       ELSE Fail(NoFileType)
    /\ UNCHANGED <<file, ocr_result, response, structured_data, enhanced_data, calls>>
    /\ UNCHANGED serviceVars

\* Step 1: extract_text returns, then the blank-text check
Recognize ==
    /\ pc = "ocr"
    /\ calls' = Append(calls, "ocr")
    /\ \E r \in OcrResults :
          /\ ocr_result' = r
          /\ IF Strip(r.text) = <<>>
             THEN Fail(NoText)
             ELSE pc' = "llm" /\ UNCHANGED result
    /\ UNCHANGED <<file, response, structured_data, enhanced_data>>
    /\ UNCHANGED serviceVars

\* a recognition that is tried again after it raised: what C8 is tested against
RecognizeAgain ==
    /\ pc = "ocr"
    /\ Len(calls) < 2
    /\ calls' = Append(calls, "ocr")
    /\ UNCHANGED <<pc, file, ocr_result, response, structured_data, enhanced_data, result>>
    /\ UNCHANGED serviceVars

\* Step 1: extract_text raises
RecognizeFails ==
    /\ pc = "ocr"
    /\ calls' = Append(calls, "ocr")
    /\ Fail(OcrFailed)
    /\ UNCHANGED <<file, ocr_result, response, structured_data, enhanced_data>>
    /\ UNCHANGED serviceVars

\* Step 2: structure_marksheet_data: the provider replies and the reply is parsed
Structure ==
    /\ pc = "llm"
    /\ calls' = Append(calls, "llm")
    /\ \E reply \in Replies :
          LET parsed == parse_llm_response(reply)
          IN /\ response' = reply
             /\ IF parsed.ok
                THEN /\ structured_data' = parsed.v
                     /\ pc' = "confidence"
                     /\ UNCHANGED result
                ELSE /\ Fail(parsed)
                     /\ UNCHANGED structured_data
    /\ UNCHANGED <<file, ocr_result, enhanced_data>>
    /\ UNCHANGED serviceVars

\* Step 2: the provider call raises
StructureFails ==
    /\ pc = "llm"
    /\ calls' = Append(calls, "llm")
    /\ Fail(ProviderFailed)
    /\ UNCHANGED <<file, ocr_result, response, structured_data, enhanced_data>>
    /\ UNCHANGED serviceVars

\* a recalibration that writes the scores into the draft it was given: what
\* C25 is tested against
RecalibrateInPlace ==
    /\ pc = "confidence"
    /\ calls' = Append(calls, "confidence")
    /\ enhanced_data' = calculate_confidence_scores(
                            structured_data, ocr_result.word_confidences, ocr_result.text)
    /\ structured_data' = enhanced_data'
    /\ pc' = "validate"
    /\ UNCHANGED <<file, ocr_result, response, result>>
    /\ UNCHANGED serviceVars

\* Step 3: calculate_confidence_scores
Recalibrate ==
    /\ pc = "confidence"
    /\ calls' = Append(calls, "confidence")
    /\ enhanced_data' = calculate_confidence_scores(
                            structured_data, ocr_result.word_confidences, ocr_result.text)
    /\ pc' = "validate"
    /\ UNCHANGED <<file, ocr_result, response, structured_data, result>>
    /\ UNCHANGED serviceVars

\* Step 4: _validate_extracted_data, then the ExtractionResult is built
Validate ==
    /\ pc = "validate"
    /\ calls' = Append(calls, "validate")
    /\ LET validated_data == validate_extracted_data(enhanced_data)
       IN IF validated_data.ok
          THEN /\ pc' = "done"
               /\ result' = ExtractionResult(validated_data.v)
          ELSE Fail(validated_data)
    /\ UNCHANGED <<file, ocr_result, response, structured_data, enhanced_data>>
    /\ UNCHANGED serviceVars

Next ==
    \/ ReadFile
    \/ Recognize
    \/ RecognizeFails
    \/ Structure
    \/ StructureFails
    \/ Recalibrate
    \/ Validate

Spec == Init /\ [][Next]_vars

\* ------------------------------------------------------------------------
\* ConfidenceService: the calls made on the one instance over its life
\* ------------------------------------------------------------------------

\* no run of extract_marksheet_data is being followed
NoPipelineRun ==
    /\ pc = "idle"
    /\ file = None
    /\ ocr_result = None
    /\ response = None
    /\ structured_data = None
    /\ enhanced_data = None
    /\ result = None
    /\ calls = <<>>

\* the texts recognition returned for the drafts below
EngineTexts ==
    {r \in OcrResults : r.word_confidences # <<>> /\ Len(r.text) > Len(vAlBo)}

\* drafts a provider answers: one as the prompt asks for, one of empty
\* values, one whose scoring raises
SampleDrafts ==
    { PyDict([candidate_details |-> GoodCandidate,
              subjects |-> PyList(<<GoodSubject>>)]),
      PyDict([candidate_details |-> ZeroCandidate,
              subjects |-> PyList(<<ZeroSubject>>),
              overall_result |-> ZeroOverall,
              document_info |-> ZeroDocument]),
      PyDict([candidate_details |-> GoodCandidate,
              overall_result |-> PyDict([cgpa |-> Leaf(PyFloat(Tenths(85)), Conf(80))])]) }

\* the drafts as structure_marksheet_data returns them
EngineDrafts == {validate_structure(d) : d \in SampleDrafts}

EngineInputs == [draft : EngineDrafts, recognised : EngineTexts]

EngineInit ==
    /\ NoPipelineRun
    /\ NoHttpRequest
    /\ self_patterns = patterns
    /\ invocations = <<>>
    /\ requests = <<>>

\* a call that empties the roll-number patterns once it has scored: what C21
\* is tested against
CalculateAndForget ==
    /\ Len(invocations) < MaxInvocations
    /\ \E given \in EngineInputs :
           invocations' =
               Append(invocations,
                      [given |-> given,
                       returned |-> calculate_confidence_scores(
                                        given.draft, given.recognised.word_confidences,
                                        given.recognised.text)])
    /\ self_patterns' = [self_patterns EXCEPT !["roll_number"] = <<>>]
    /\ UNCHANGED <<requests, pipelineVars, apiVars>>

\* one call of calculate_confidence_scores on the instance: it reads
\* self.patterns and writes no attribute
CalculateConfidenceScores ==
    /\ Len(invocations) < MaxInvocations
    /\ \E given \in EngineInputs :
           invocations' =
               Append(invocations,
                      [given |-> given,
                       returned |-> calculate_confidence_scores(
                                        given.draft, given.recognised.word_confidences,
                                        given.recognised.text)])
    /\ UNCHANGED <<self_patterns, requests, pipelineVars, apiVars>>

EngineNext == CalculateConfidenceScores

EngineSpec == EngineInit /\ [][EngineNext]_vars

\* ------------------------------------------------------------------------
\* Requests running concurrently on the one ExtractionService instance
\* ------------------------------------------------------------------------

\* the ExtractionResult, or the exception, that ends a run
Outcome(validated_data) ==
    IF validated_data.ok
    THEN ExtractionResult(validated_data.v)
    ELSE Exception(validated_data)

\* steps 3 and 4 of extract_marksheet_data on a draft
ScoredAndValidated(draft, recognised) ==
    Outcome(validate_extracted_data(
                calculate_confidence_scores(draft.v, recognised.word_confidences,
                                            recognised.text)))

\* extract_marksheet_data run from its first line to its last: what the
\* caller gets for an upload, given how the call of extract_text ended
\* (Ok(result) or the exception) and how the provider call ended (Ok(reply)
\* or the exception)
extract_marksheet_data(upload, recognised, replied) ==
    IF ~upload.has_extension THEN Exception(NoFileType)
    ELSE IF ~recognised.ok THEN Exception(recognised)
    ELSE IF Strip(recognised.v.text) = <<>> THEN Exception(NoText)
    ELSE IF ~replied.ok THEN Exception(replied)
    ELSE IF ~parse_llm_response(replied.v).ok
    THEN Exception(parse_llm_response(replied.v))
    ELSE ScoredAndValidated(parse_llm_response(replied.v), recognised.v)

\* what recognition answers the concurrent requests
ConcurrentTexts == EngineTexts \cup {[text |-> <<" ", "\n">>, word_confidences |-> <<>>]}

\* what the provider replies to them
ConcurrentReplies == {Dump(d) : d \in SampleDrafts} \cup {<<Junk>>}

\* the locals of a request that is about to run, with how its calls of
\* extract_text and of the provider ended
NewRequest(upload) ==
    [pc |-> "start", file |-> upload, recognised |-> None, replied |-> None,
     ocr_result |-> None, structured_data |-> None, enhanced_data |-> None,
     result |-> None]

ConcurrentInit ==
    /\ NoPipelineRun
    /\ NoHttpRequest
    /\ self_patterns = patterns
    /\ invocations = <<>>
    /\ requests \in [1..MaxRequests -> {NewRequest(upload) :
                                            upload \in [has_extension : BOOLEAN]}]

\* the request goes on with these locals changed
Goes(r, changed) ==
    /\ requests' = [requests EXCEPT ![r] = changed @@ requests[r]]
    /\ UNCHANGED <<self_patterns, invocations, pipelineVars, apiVars>>

Failed(e) == [pc |-> "failed", result |-> Exception(e)]

\* file.read() and the extension of the filename, in request r
RunReadFile(r) ==
    /\ requests[r].pc = "start"
    /\ Goes(r, IF requests[r].file.has_extension
                THEN [pc |-> "ocr"]
                ELSE Failed(NoFileType))

\* step 1 in request r: extract_text returns or raises
RunRecognize(r) ==
    /\ requests[r].pc = "ocr"
    /\ \/ \E recognised \in ConcurrentTexts :
              Goes(r, [recognised |-> Ok(recognised), ocr_result |-> recognised]
                      @@ IF Strip(recognised.text) = <<>>
                         THEN Failed(NoText)
                         ELSE [pc |-> "llm"])
       \/ Goes(r, [recognised |-> OcrFailed] @@ Failed(OcrFailed))

\* the outcome of parsing a reply, as locals
Structured(reply, parsed) ==
    [replied |-> Ok(reply)]
    @@ IF parsed.ok
       THEN [structured_data |-> parsed.v, pc |-> "confidence"]
       ELSE Failed(parsed)

\* step 2 in request r: the provider replies and the reply is parsed, or the
\* provider call raises
RunStructure(r) ==
    /\ requests[r].pc = "llm"
    /\ \/ \E reply \in ConcurrentReplies :
              Goes(r, Structured(reply, parse_llm_response(reply)))
       \/ Goes(r, [replied |-> ProviderFailed] @@ Failed(ProviderFailed))

\* a recalibration that scores against the text of the first request, as if
\* recognition had stored its result on the shared instance: what C22 is
\* tested against
RunRecalibrateShared(r) ==
    /\ requests[r].pc = "confidence"
    /\ Goes(r, [enhanced_data |->
                    calculate_confidence_scores(
                        requests[r].structured_data,
                        (IF requests[1].ocr_result = None
                         THEN requests[r].ocr_result
                         ELSE requests[1].ocr_result).word_confidences,
                        requests[r].ocr_result.text),
                pc |-> "validate"])

\* step 3 in request r: calculate_confidence_scores on the request's own
\* draft, word confidences and text
RunRecalibrate(r) ==
    /\ requests[r].pc = "confidence"
    /\ Goes(r, [enhanced_data |->
                    calculate_confidence_scores(
                        requests[r].structured_data,
                        requests[r].ocr_result.word_confidences,
                        requests[r].ocr_result.text),
                pc |-> "validate"])

\* the outcome of validation, as locals
Validated(validated_data) ==
    IF validated_data.ok
    THEN [pc |-> "done", result |-> ExtractionResult(validated_data.v)]
    ELSE Failed(validated_data)

\* step 4 in request r: _validate_extracted_data and the ExtractionResult
RunValidate(r) ==
    /\ requests[r].pc = "validate"
    /\ Goes(r, Validated(validate_extracted_data(requests[r].enhanced_data)))

\* any request that can take a step takes it: no ordering among requests
ConcurrentNext ==
    \E r \in DOMAIN requests :
        \/ RunReadFile(r)
        \/ RunRecognize(r)
        \/ RunStructure(r)
        \/ RunRecalibrate(r)
        \/ RunValidate(r)

ConcurrentSpec == ConcurrentInit /\ [][ConcurrentNext]_vars

\* ------------------------------------------------------------------------
\* main.py: the two extraction endpoints
\* ------------------------------------------------------------------------

\* settings.get_api_keys, API_KEYS being "test-key,demo-key"
get_api_keys == {"test-key", "demo-key"}

Bearer(key) == [scheme |-> "Bearer", credentials |-> key]

\* what HTTPBearer(auto_error=False) hands the handler: None without a
\* bearer Authorization header
Credentials == {None, Bearer(""), Bearer("wrong-key"), Bearer("test-key")}

\* security.verify_api_key
verify_api_key(api_key) ==
    IF api_key = None THEN FALSE ELSE api_key.credentials \in get_api_keys

\* settings.get_allowed_extensions
allowed_extensions == {"jpg", "jpeg", "png", "pdf"}

\* uploads: an image, a text file, a part with an empty filename, a PDF
\* above MAX_FILE_SIZE
Uploads ==
    { [filename |-> "sheet.png", extension |-> "png", oversized |-> FALSE],
      [filename |-> "notes.txt", extension |-> "txt", oversized |-> FALSE],
      [filename |-> "", extension |-> "", oversized |-> FALSE],
      [filename |-> "big.pdf", extension |-> "pdf", oversized |-> TRUE] }

ValidationResult(is_valid, error) == [is_valid |-> is_valid, error |-> error]

\* FileValidator.validate_file, for uploads whose content is what their
\* extension says
validate_file(upload) ==
    IF upload.filename = ""
    THEN ValidationResult(FALSE, "No file provided")
    ELSE IF upload.oversized
    THEN ValidationResult(FALSE, "File size exceeds maximum allowed size")
    ELSE IF upload.extension \notin allowed_extensions
    THEN ValidationResult(FALSE, "File type not allowed")
    ELSE ValidationResult(TRUE, None)

\* how extract_text and the provider call can end for an upload
Recognitions == {Ok(r) : r \in EngineTexts} \cup {OcrFailed}
Completions ==
    {Ok(Dump(d)) : d \in SampleDrafts} \cup {Ok(<<Junk>>), ProviderFailed}

\* extraction_service.extract_marksheet_data(file), recognition and the
\* provider ending as given
Extracted(upload, recognised, replied) ==
    extract_marksheet_data([has_extension |-> upload.extension # ""], recognised, replied)

HTTPException(status_code, detail) ==
    [status_code |-> status_code, detail |-> detail]

ExtractResponse(extraction_result, upload) ==
    [status_code |-> 200,
     body |-> [status |-> "success", data |-> extraction_result.data,
               model_used |-> extraction_result.model_used,
               file_info |-> [filename |-> upload.filename]]]

BatchExtractResponse(total_files, successful, failed, batch_results, batch_errors) ==
    [status_code |-> 200,
     body |-> [status |-> "completed", total_files |-> total_files,
               successful |-> successful, failed |-> failed,
               results |-> batch_results, errors |-> batch_errors]]

\* a request arrives at one of the endpoints
ApiInit ==
    /\ NoPipelineRun
    /\ self_patterns = patterns
    /\ invocations = <<>>
    /\ requests = <<>>
    /\ endpoint \in {"extract", "batch"}
    /\ credentials \in Credentials
    /\ files \in IF endpoint = "extract"
                 THEN {<<upload>> : upload \in Uploads}
                 ELSE ListsUpTo(Uploads, MAX_BATCH_SIZE + 1) \ {<<>>}
    /\ api_pc = "verify"
    /\ file_index = 0
    /\ results = <<>>
    /\ errors = <<>>
    /\ api_calls = <<>>
    /\ http_response = None

\* the handler ends with this response
Sends(sent) ==
    /\ http_response' = sent
    /\ api_pc' = "sent"

Called(call, position) == [call |-> call, file |-> position]

apiOthers == <<self_patterns, invocations, requests, pipelineVars>>

\* a key check made after the first file was validated: what C24 is tested
\* against
VerifyKeyLate ==
    /\ api_pc = "verify"
    /\ api_calls' = Append(api_calls, Called("validate_file", 1))
    /\ IF ~verify_api_key(credentials)
       THEN Sends(HTTPException(401, "Invalid or missing API key"))
       ELSE /\ api_pc' = IF endpoint = "extract" THEN "validate" ELSE "size"
            /\ UNCHANGED http_response
    /\ UNCHANGED <<endpoint, credentials, files, file_index, results, errors, apiOthers>>

\* both handlers: `if not verify_api_key(api_key): raise HTTPException(401)`
VerifyKey ==
    /\ api_pc = "verify"
    /\ IF ~verify_api_key(credentials)
       THEN Sends(HTTPException(401, "Invalid or missing API key"))
       ELSE /\ api_pc' = IF endpoint = "extract" THEN "validate" ELSE "size"
            /\ UNCHANGED http_response
    /\ UNCHANGED <<endpoint, credentials, files, file_index, results, errors, api_calls,
                   apiOthers>>

\* extract_marksheet: the file is validated
ValidateUpload ==
    /\ api_pc = "validate"
    /\ api_calls' = Append(api_calls, Called("validate_file", 1))
    /\ IF ~validate_file(files[1]).is_valid
       THEN Sends(HTTPException(400, "File validation failed"))
       ELSE /\ api_pc' = "extract"
            /\ UNCHANGED http_response
    /\ UNCHANGED <<endpoint, credentials, files, file_index, results, errors, apiOthers>>

\* the response of extract_marksheet to what the pipeline returned or raised
Answered(extraction_result, upload) ==
    IF extraction_result.kind = "result"
    THEN ExtractResponse(extraction_result, upload)
    ELSE HTTPException(500, "Extraction failed")

\* extract_marksheet: the pipeline runs and the response is built
ExtractUpload ==
    /\ api_pc = "extract"
    /\ api_calls' = Append(api_calls, Called("extract_marksheet_data", 1))
    /\ \E recognised \in Recognitions, replied \in Completions :
           Sends(Answered(Extracted(files[1], recognised, replied), files[1]))
    /\ UNCHANGED <<endpoint, credentials, files, file_index, results, errors, apiOthers>>

\* batch_extract_marksheets: `if len(files) > settings.MAX_BATCH_SIZE`
CheckBatchSize ==
    /\ api_pc = "size"
    /\ IF Len(files) > MAX_BATCH_SIZE
       THEN /\ Sends(HTTPException(400, "Too many files"))
            /\ UNCHANGED file_index
       ELSE /\ api_pc' = "loop"
            /\ file_index' = 1
            /\ UNCHANGED http_response
    /\ UNCHANGED <<endpoint, credentials, files, results, errors, api_calls, apiOthers>>

BatchResultItem(upload, extraction_result) ==
    [filename |-> upload.filename, status |-> "success",
     data |-> extraction_result.data, model_used |-> extraction_result.model_used]

BatchErrorItem(upload, error) == [filename |-> upload.filename, error |-> error]

\* the body of the loop after validation passed: the pipeline ran and its
\* result or its exception is filed
Filed(upload, extraction_result) ==
    /\ api_calls' = api_calls \o <<Called("validate_file", file_index),
                                    Called("extract_marksheet_data", file_index)>>
    /\ IF extraction_result.kind = "result"
       THEN /\ results' = Append(results, BatchResultItem(upload, extraction_result))
            /\ UNCHANGED errors
       ELSE /\ errors' = Append(errors, BatchErrorItem(upload, extraction_result.msg))
            /\ UNCHANGED results

\* a loop that lets the exception of a file leave the handler: what C23 is
\* tested against
ProcessFileUnguarded ==
    /\ api_pc = "loop"
    /\ file_index <= Len(files)
    /\ IF ~validate_file(files[file_index]).is_valid
       THEN /\ api_calls' = Append(api_calls, Called("validate_file", file_index))
            /\ errors' = Append(errors, BatchErrorItem(files[file_index],
                                                       validate_file(files[file_index]).error))
            /\ file_index' = file_index + 1
            /\ UNCHANGED <<results, api_pc, http_response>>
       ELSE \E recognised \in Recognitions, replied \in Completions :
                /\ Filed(files[file_index],
                         Extracted(files[file_index], recognised, replied))
                /\ IF Extracted(files[file_index], recognised, replied).kind = "result"
                   THEN /\ file_index' = file_index + 1
                        /\ UNCHANGED <<api_pc, http_response>>
                   ELSE /\ Sends(HTTPException(500, "Batch extraction failed"))
                        /\ UNCHANGED file_index
    /\ UNCHANGED <<endpoint, credentials, files, apiOthers>>

\* batch_extract_marksheets: one pass of `for file in files`, with its try
\* and except
ProcessFile ==
    /\ api_pc = "loop"
    /\ file_index <= Len(files)
    /\ IF ~validate_file(files[file_index]).is_valid
       THEN /\ api_calls' = Append(api_calls, Called("validate_file", file_index))
            /\ errors' = Append(errors, BatchErrorItem(files[file_index],
                                                       validate_file(files[file_index]).error))
            /\ UNCHANGED results
       ELSE \E recognised \in Recognitions, replied \in Completions :
                Filed(files[file_index], Extracted(files[file_index], recognised, replied))
    /\ file_index' = file_index + 1
    /\ UNCHANGED <<endpoint, credentials, files, api_pc, http_response, apiOthers>>

\* batch_extract_marksheets: the loop is over and the response is built
RespondBatch ==
    /\ api_pc = "loop"
    /\ file_index > Len(files)
    /\ Sends(BatchExtractResponse(Len(files), Len(results), Len(errors), results, errors))
    /\ UNCHANGED <<endpoint, credentials, files, file_index, results, errors, api_calls,
                   apiOthers>>

ApiNext ==
    \/ VerifyKey
    \/ ValidateUpload
    \/ ExtractUpload
    \/ CheckBatchSize
    \/ ProcessFile
    \/ RespondBatch

ApiSpec == ApiInit /\ [][ApiNext]_vars

\* ------------------------------------------------------------------------
\* Properties of one request
\* ------------------------------------------------------------------------

StageOrder == <<"ocr", "llm", "confidence", "validate">>

Invoked(stage) == \E i \in DOMAIN calls : calls[i] = stage
Finished == pc \in {"done", "failed"}
Returns == pc = "done" /\ result.kind = "result"
Aborts == pc = "failed" /\ result.kind = "error"

\* what the engine was called with in this request
ScoredNow ==
    ScoreSections(structured_data, ocr_result.word_confidences, ocr_result.text)

\* the entries of a section of the engine's record
SectionLeaves(section) == {section.m[field] : field \in DOMAIN section.m}

\* the leaves of the record the engine built
EngineLeaves(data) ==
    SectionLeaves(data.m["candidate_details"])
    \cup UNION {SectionLeaves(data.m["subjects"].items[i]) :
                    i \in DOMAIN data.m["subjects"].items}
    \cup SectionLeaves(data.m["overall_result"])
    \cup SectionLeaves(data.m["document_info"])

InUnitInterval(c) == IsNumber(c) /\ 0 <= Micro(c) /\ Micro(c) <= Unit

\* C1: once structuring has returned a draft the request never aborts:
\* recalibration and validation complete and a record is returned.
C1_NeverAbortsOnceStructured ==
    Invoked("confidence") => ~Aborts

\* C2: when scoring a draft raises, calculate_confidence_scores returns the
\* draft it was given, unchanged, the request goes on to validation, and what
\* is validated is that draft.
C2_ScoringErrorKeepsDraft ==
    (Invoked("confidence") /\ ~ScoredNow.ok) =>
        /\ enhanced_data = structured_data
        /\ pc = "validate" \/ Invoked("validate")
        /\ Finished =>
              LET validated == validate_extracted_data(structured_data)
              IN IF validated.ok
                 THEN Returns /\ result.data = validated.v
                 ELSE Aborts

C2_ScoringRaised ==
    /\ pc = "done"
    /\ ~ScoredNow.ok
    /\ enhanced_data = structured_data
    /\ DOMAIN structured_data.m["candidate_details"].m # {}

\* C3: every leaf of a record the engine built has a confidence between 0.0
\* and 1.0 (stated for the records built without an error; the drafts handed
\* back after an error are the subject of C2).
C3_EngineConfidencesInUnitInterval ==
    (Invoked("confidence") /\ ScoredNow.ok) =>
        \A leaf \in EngineLeaves(enhanced_data) : InUnitInterval(leaf.m["confidence"])

\* what the fallback is said to keep of a name or roll_no entry
SurvivingLeaf(cd, field) ==
    LET entry == IF IsDict(cd) /\ field \in DOMAIN cd.m THEN cd.m[field] ELSE EmptyDict
        given(key) == IsDict(entry) /\ key \in DOMAIN entry.m
    IN PyDict([value |-> IF given("value") THEN entry.m["value"] ELSE Unknown,
               confidence |-> IF given("confidence")
                              THEN IF IsNumber(entry.m["confidence"])
                                   THEN PyFloat(Micro(entry.m["confidence"]))
                                   ELSE entry.m["confidence"]
                              ELSE LowConfidence])

\* C4: when the draft does not validate the caller gets the minimal record:
\* name and roll_no as they survive in the draft, "Unknown" and 0.1 where
\* absent, an empty subjects list and empty overall_result and document_info.
C4_FallbackIsMinimalRecord ==
    (Finished /\ Invoked("validate") /\ ~ExtractedData(enhanced_data).ok) =>
        /\ Returns
        /\ LET cd == Get(enhanced_data, "candidate_details", EmptyDict)
           IN result.data =
                  PyDict([candidate_details |->
                              PyDict([name |-> SurvivingLeaf(cd, "name"),
                                      roll_no |-> SurvivingLeaf(cd, "roll_no")]),
                          subjects |-> EmptyList,
                          overall_result |-> EmptyDict,
                          document_info |-> EmptyDict])

\* the candidate_details of the record returned
ReturnedCandidate == result.data.m["candidate_details"].m

Blank(text) == \A i \in DOMAIN text : text[i] \in SpaceChars

\* C6: when the recognised text is empty after trimming the request fails
\* with "No text could be extracted from the document", and structuring,
\* recalibration and validation are not invoked.
C6_BlankTextIsFatal ==
    (Invoked("ocr") /\ ocr_result # None /\ Blank(ocr_result.text)) =>
        /\ Aborts
        /\ result = Exception(NoText)
        /\ calls = <<"ocr">>

C6_BlankTextRecognised ==
    /\ Invoked("ocr")
    /\ ocr_result # None
    /\ ocr_result.text = <<" ", "\n">>
    /\ Aborts

\* the reply has both braces: the text from the first `{` to the last `}`
HasBraces(reply) == FindLBrace(reply) # -1 /\ RFindRBrace(reply) # -1
Braced(reply) == Slice(reply, FindLBrace(reply), RFindRBrace(reply) + 1)

\* structuring was invoked and did not return a draft: the provider raised
\* (no reply), or the reply holds no JSON or JSON that does not parse
StructuringFailed ==
    /\ Invoked("llm")
    /\ \/ pc = "failed" /\ calls = <<"ocr", "llm">> /\ result = Exception(ProviderFailed)
       \/ /\ result # Exception(ProviderFailed)
          /\ ~HasBraces(response) \/ ~json_loads(Braced(response)).ok

\* C7: a failure of structuring (the provider's, or the reply's) ends the
\* request with an error: no record is returned and recalibration and
\* validation are not run.
C7_StructuringFailureIsFatal ==
    StructuringFailed =>
        /\ Aborts
        /\ structured_data = None
        /\ calls = <<"ocr", "llm">>

C7_ReplyRejected ==
    /\ Aborts
    /\ calls = <<"ocr", "llm">>
    /\ result # Exception(ProviderFailed)
    /\ Len(response) > 1

\* C8: the stages run in the order recognition, structuring, recalibration,
\* validation, each at most once, and all four exactly once on a request that
\* returns a record.
C8_StagesInOrderOnce ==
    /\ Len(calls) <= Len(StageOrder)
    /\ calls = SubSeq(StageOrder, 1, Len(calls))
    /\ pc = "done" => calls = StageOrder

C8_RequestReturned ==
    /\ pc = "done"
    /\ calls = StageOrder

C10_RepairedDraft ==
    (Invoked("llm") /\ result # Exception(ProviderFailed)
         /\ HasBraces(response) /\ json_loads(Braced(response)).ok) =>
        /\ structured_data # None
        /\ ~(pc = "failed" /\ calls = <<"ocr", "llm">>)
        /\ \A i \in DOMAIN required_sections :
               required_sections[i] \in DOMAIN structured_data.m
        /\ IsList(structured_data.m["subjects"])
        /\ "subjects" \notin DOMAIN json_loads(Braced(response)).v.m
               => structured_data.m["subjects"] = EmptyList

C10_SubjectsKeyMissing ==
    /\ structured_data # None
    /\ "subjects" \notin DOMAIN json_loads(Braced(response)).v.m
    /\ "candidate_details" \in DOMAIN json_loads(Braced(response)).v.m
    /\ structured_data.m["subjects"] = EmptyList

\* every entry stored under the key `confidence`, at any depth of a tree
RECURSIVE ConfidenceEntries(_)
ConfidenceEntries(obj) ==
    IF IsDict(obj)
    THEN (IF "confidence" \in DOMAIN obj.m THEN {obj.m["confidence"]} ELSE {})
         \cup UNION {ConfidenceEntries(obj.m[key]) : key \in DOMAIN obj.m}
    ELSE IF IsList(obj)
    THEN UNION {ConfidenceEntries(obj.items[i]) : i \in DOMAIN obj.items}
    ELSE {}

\* C11: after the repair pass every `confidence` entry of the draft, at any
\* depth, is a number between 0.0 and 1.0.
C11_RepairedConfidencesInUnitInterval ==
    structured_data # None =>
        \A c \in ConfidenceEntries(structured_data) : InUnitInterval(c)

\* every dict that holds a `value`, at any depth of a tree
RECURSIVE ValueLeaves(_)
ValueLeaves(obj) ==
    IF IsDict(obj)
    THEN (IF "value" \in DOMAIN obj.m THEN {obj} ELSE {})
         \cup UNION {ValueLeaves(obj.m[key]) : key \in DOMAIN obj.m}
    ELSE IF IsList(obj)
    THEN UNION {ValueLeaves(obj.items[i]) : i \in DOMAIN obj.items}
    ELSE {}

\* the name leaf of the draft was given without a confidence
NameLacksConfidence ==
    /\ structured_data # None
    /\ IsDict(structured_data.m["candidate_details"])
    /\ "name" \in DOMAIN structured_data.m["candidate_details"].m
    /\ IsScoredEntry(structured_data.m["candidate_details"].m["name"])
    /\ "confidence" \notin DOMAIN structured_data.m["candidate_details"].m["name"].m

\* C12: a leaf given without a confidence carries confidence 0.0 after the
\* repair pass, and recalibration scores it with 0.0 as its provider
\* confidence.
C12_MissingConfidenceIsZero ==
    structured_data # None =>
        /\ \A leaf \in ValueLeaves(structured_data) : "confidence" \in DOMAIN leaf.m
        /\ \A given \in ValueLeaves(json_loads(Braced(response)).v) :
               "confidence" \notin DOMAIN given.m =>
                   \E leaf \in ValueLeaves(structured_data) :
                       /\ leaf.m["value"] = given.m["value"]
                       /\ Get(leaf, "confidence", PyNone) = PyFloat(0)
        /\ (Invoked("confidence") /\ ScoredNow.ok /\ NameLacksConfidence) =>
               enhanced_data.m["candidate_details"].m["name"].m["confidence"] =
                   PyFloat(Min(calculate_name_confidence(
                                   structured_data.m["candidate_details"].m["name"].m["value"],
                                   PyFloat(0), ocr_result.word_confidences,
                                   ocr_result.text).v,
                               Unit))

\* the section of the output holds leaves only, each under a key the draft's
\* section has, with the draft's value
SameValues(out, draft) ==
    /\ IsDict(draft)
    /\ \A field \in DOMAIN out.m :
           /\ field \in DOMAIN draft.m
           /\ IsScoredEntry(draft.m[field])
           /\ IsScoredEntry(out.m[field])
           /\ out.m[field].m["value"] = draft.m[field].m["value"]
           /\ DOMAIN out.m[field].m = {"value", "confidence"}

TypeScoreIn(type, value, provider, recognised) ==
    CASE type = "name" ->
            calculate_name_confidence(value, provider, recognised.word_confidences,
                                      recognised.text)
      [] type \in {"roll_number", "registration_number", "grade", "percentage"} ->
            calculate_pattern_confidence(value, type, provider, recognised.text)
      [] type = "date" ->
            calculate_date_confidence(value, provider, recognised.text)
      [] type = "marks" ->
            calculate_marks_confidence(value, provider, recognised.text)
      [] OTHER ->
            calculate_text_confidence(value, provider, recognised.word_confidences,
                                      recognised.text)

\* the score of a value under a field type, in this request
TypeScore(type, value, provider) == TypeScoreIn(type, value, provider, ocr_result)

\* the dispatch as stated: dob and issue_date are dates in candidate_details
\* and in document_info alike
StatedType(section, field) ==
    CASE section = "candidate_details" /\ field \in {"name", "father_name", "mother_name"} ->
            "name"
      [] section = "candidate_details" /\ field = "roll_no" -> "roll_number"
      [] section = "candidate_details" /\ field = "registration_no" -> "registration_number"
      [] section \in {"candidate_details", "document_info"}
            /\ field \in {"dob", "issue_date"} -> "date"
      [] section = "subjects" /\ field \in {"obtained_marks", "max_marks"} -> "marks"
      [] section = "subjects" /\ field = "grade" -> "grade"
      [] section = "overall_result" /\ field \in {"result", "grade"} -> "grade"
      [] section = "overall_result" /\ field = "percentage" -> "percentage"
      [] section = "overall_result" /\ field \in {"total_marks", "max_total_marks"} -> "marks"
      [] OTHER -> "text"

\* the dispatch with each date key tied to its own section
SectionType(section, field) ==
    IF section = "candidate_details" /\ field = "issue_date" THEN "text"
    ELSE IF section = "document_info" /\ field = "dob" THEN "text"
    ELSE StatedType(section, field)

\* the leaves of a section of the output carry the score of their type
ScoredAs(Type(_, _), section, out, draft) ==
    \A field \in DOMAIN out.m :
        LET score == TypeScore(Type(section, field), draft.m[field].m["value"],
                               Get(draft.m[field], "confidence", DefaultConfidence))
        IN /\ score.ok
           /\ out.m[field].m["confidence"] = PyFloat(Min(score.v, Unit))

DispatchedBy(Type(_, _)) ==
    (Invoked("confidence") /\ ScoredNow.ok) =>
        /\ \A section \in {"candidate_details", "overall_result", "document_info"} :
               ScoredAs(Type, section, enhanced_data.m[section], structured_data.m[section])
        /\ \A i \in DOMAIN enhanced_data.m["subjects"].items :
               ScoredAs(Type, "subjects", enhanced_data.m["subjects"].items[i],
                        structured_data.m["subjects"].items[i])

\* C14 as stated: each leaf is scored by the formula of its field type, dob
\* and issue_date being dates in candidate_details or document_info.
C14_DispatchAsStated == DispatchedBy(StatedType)

\* C14 amended: each leaf is scored by the formula of its field type, dob
\* being a date in candidate_details only and issue_date in document_info
\* only; in the other section each is generic text.
C14_DispatchBySection == DispatchedBy(SectionType)

C14_IssueDateOfCandidateAsText ==
    /\ Invoked("confidence")
    /\ ScoredNow.ok
    /\ Contains(ocr_result.text, vDate)
    /\ "issue_date" \in DOMAIN enhanced_data.m["candidate_details"].m
    /\ structured_data.m["candidate_details"].m["issue_date"] = Leaf(S(vDate), Conf(50))
    /\ enhanced_data.m["candidate_details"].m["issue_date"] = Leaf(S(vDate), Conf(60))
    /\ calculate_date_confidence(S(vDate), Conf(50), ocr_result.text) = Ok(738 * 1000)

\* the leaves of the draft the engine scores: section, subject index (0
\* outside subjects), key and entry
LeavesIn(section, index, mapping) ==
    IF IsDict(mapping)
    THEN {[section |-> section, index |-> index, field |-> field,
           leaf |-> mapping.m[field]] : field \in ScoredFields(mapping)}
    ELSE {}

DraftLeaves ==
    IF structured_data = None
    THEN {}
    ELSE UNION {LeavesIn(section, 0, structured_data.m[section]) :
                    section \in {"candidate_details", "overall_result", "document_info"}}
         \cup UNION {LeavesIn("subjects", i, structured_data.m["subjects"].items[i]) :
                         i \in DOMAIN structured_data.m["subjects"].items}

\* the engine built a record, and this is the confidence it gave the leaf
Rescored == Invoked("confidence") /\ ScoredNow.ok

EnhancedConfidence(e) ==
    IF e.section = "subjects"
    THEN enhanced_data.m["subjects"].items[e.index].m[e.field].m["confidence"]
    ELSE enhanced_data.m[e.section].m[e.field].m["confidence"]

\* data.get('confidence', 0.5) of a leaf
Provider(leaf) == Get(leaf, "confidence", DefaultConfidence)

\* the leaves of the draft of a type, with a number for provider confidence
LeavesOfType(types) ==
    {e \in DraftLeaves : SectionType(e.section, e.field) \in types
                         /\ IsNumber(Provider(e.leaf))}

\* neither null nor an empty text
NonEmpty(value) == value # PyNone /\ value # PyStr(<<>>)

\* the text of a value, as compared with the source text
TextOf(value) == IF value.k = "str" THEN value.s ELSE StrOf(value)

OccursIn(value, text) == Contains(Lower(text), Lower(TextOf(value)))

MatchesAny(value, type) ==
    \E i \in DOMAIN patterns[type] : ReSearch(patterns[type][i], TextOf(value), TRUE)

IdentifierTypes == {"roll_number", "registration_number", "grade", "percentage"}

\* C15: an identifier-pattern leaf with a non-empty value scores
\* 0.4*provider + 0.4*(0.9 if the value matches a pattern of its field, else
\* 0.1) + 0.2*(1.0 if the value occurs in the text, else 0.2); "AB123456"
\* with provider 1.0, in the text and matching, scores 0.96.
C15_PatternFormula ==
    \A e \in LeavesOfType(IdentifierTypes) :
        NonEmpty(e.leaf.m["value"]) =>
            LET type == SectionType(e.section, e.field)
                value == e.leaf.m["value"]
                stated == (4 * Micro(Provider(e.leaf))
                           + 4 * (IF MatchesAny(value, type) THEN Tenths(9) ELSE Tenths(1))
                           + 2 * (IF OccursIn(value, ocr_result.text)
                                  THEN Tenths(10) ELSE Tenths(2))) \div 10
            IN /\ calculate_pattern_confidence(value, type, Provider(e.leaf),
                                               ocr_result.text) = Ok(stated)
               /\ (e.leaf = Leaf(S(vRoll), Conf(100)) /\ Contains(ocr_result.text, vRoll))
                      => stated = Hundredths(96)

\* the value is in one of the three cases the marks formula names
InStatedCases(value) == ~FloatOf(value).ok \/ FloatOf(value).v >= 0

StatedNumeric(value) ==
    IF ~FloatOf(value).ok THEN Tenths(1)
    ELSE IF FloatOf(value).v > 1000 * Unit THEN Tenths(5)
    ELSE Tenths(9)

MarksStated(e) ==
    (4 * Micro(Provider(e.leaf))
     + 4 * StatedNumeric(e.leaf.m["value"])
     + 2 * (IF Contains(ocr_result.text, StrOf(e.leaf.m["value"]))
            THEN Tenths(10) ELSE Tenths(3))) \div 10

\* C16: a numeric-marks leaf with a non-null value scores 0.4*provider +
\* 0.4*(0.9 if 0 <= numeric(value) <= 1000; 0.5 if above 1000; 0.1 if not
\* numeric) + 0.2*(1.0 if the stringified value is in the text, else 0.3);
\* marks 85 with provider 0.5 and "85" in the text scores 0.76.
C16_MarksFormula ==
    \A e \in LeavesOfType({"marks"}) :
        (e.leaf.m["value"] # PyNone /\ InStatedCases(e.leaf.m["value"])) =>
            /\ calculate_marks_confidence(e.leaf.m["value"], Provider(e.leaf),
                                          ocr_result.text) = Ok(MarksStated(e))
            /\ Rescored => EnhancedConfidence(e) = PyFloat(Min(MarksStated(e), Unit))
            /\ (e.leaf = Leaf(PyInt(85), Conf(50))
                    /\ Contains(ocr_result.text, <<"8","5">>))
                   => MarksStated(e) = Hundredths(76)

C16_Marks85Scored ==
    /\ Rescored
    /\ \E e \in LeavesOfType({"marks"}) :
           /\ e.leaf = Leaf(PyInt(85), Conf(50))
           /\ EnhancedConfidence(e) = Conf(76)
    /\ ocr_result.word_confidences # <<>>

\* the identifier-pattern score of a value against the date patterns
DatePatternStated(e) ==
    (4 * Micro(Provider(e.leaf))
     + 4 * (IF MatchesAny(e.leaf.m["value"], "date") THEN Tenths(9) ELSE Tenths(1))
     + 2 * (IF OccursIn(e.leaf.m["value"], ocr_result.text)
            THEN Tenths(10) ELSE Tenths(2))) \div 10

\* 0.9 when the value parses under one of the formats, else 0.1
FormatStated(value) ==
    IF value.k = "str" /\ \E i \in DOMAIN DateFormats : StrpTime(value.s, DateFormats[i])
    THEN Tenths(9) ELSE Tenths(1)

DateStated(e) ==
    (3 * Micro(Provider(e.leaf)) + 4 * FormatStated(e.leaf.m["value"])
     + 3 * DatePatternStated(e)) \div 10

\* C17: a date leaf with a non-empty value scores 0.3*provider + 0.4*(0.9 if
\* the value parses under one of the date formats, else 0.1) + 0.3*(its
\* identifier-pattern score against the date patterns); for "2021-05-04"
\* with provider 0.5 the format component is 0.9 and the score is strictly
\* between 0.5 and 1.0, in the text or not.
C17_DateFormula ==
    \A e \in LeavesOfType({"date"}) :
        NonEmpty(e.leaf.m["value"]) =>
            /\ calculate_date_confidence(e.leaf.m["value"], Provider(e.leaf),
                                         ocr_result.text) = Ok(DateStated(e))
            /\ Rescored => EnhancedConfidence(e) = PyFloat(Min(DateStated(e), Unit))
            /\ e.leaf = Leaf(S(vDate), Conf(50)) =>
                   /\ FormatStated(e.leaf.m["value"]) = Tenths(9)
                   /\ Tenths(5) < DateStated(e)
                   /\ DateStated(e) < Unit

C17_DateAbsentFromText ==
    /\ Rescored
    /\ ~Contains(ocr_result.text, vDate)
    /\ \E e \in LeavesOfType({"date"}) :
           /\ e.leaf = Leaf(S(vDate), Conf(50))
           /\ EnhancedConfidence(e) = PyFloat(690 * 1000)

TextStated(e) ==
    (5 * Micro(Provider(e.leaf))
     + 3 * AvgOcrConf(Split(TextOf(e.leaf.m["value"])), ocr_result.word_confidences)
     + 2 * (IF OccursIn(e.leaf.m["value"], ocr_result.text)
            THEN Tenths(10) ELSE Tenths(2))) \div 10

\* C18: every generic-text leaf with a value that is neither null nor empty,
\* a number under exam_year, max_credits, obtained_credits or cgpa included,
\* scores 0.5*provider + 0.3*(mean token confidence of the value's words,
\* 0.5 for a word not in the token map) + 0.2*(1.0 if the value occurs in
\* the text, else 0.2), and scoring it does not make recalibration fail.
C18_TextFormula ==
    \A e \in LeavesOfType({"text"}) :
        NonEmpty(e.leaf.m["value"]) =>
            /\ calculate_text_confidence(e.leaf.m["value"], Provider(e.leaf),
                                         ocr_result.word_confidences,
                                         ocr_result.text) = Ok(TextStated(e))
            /\ Rescored => EnhancedConfidence(e) = PyFloat(Min(TextStated(e), Unit))

\* provider confidences a leaf may carry, garbage included
ProviderValues == {Conf(0), Conf(50), Conf(100), Conf(-100), S(vHigh), PyNone}

\* the leaves of the draft of a type, whatever their provider confidence
AnyLeavesOfType(types) ==
    {e \in DraftLeaves : SectionType(e.section, e.field) \in types}

\* C19: a personal-name leaf whose value is empty or "Unknown" gets
\* confidence exactly 0.0, for every provider confidence, token map and
\* source text.
C19_EmptyOrUnknownNameIsZero ==
    \A e \in AnyLeavesOfType({"name"}) :
        e.leaf.m["value"] \in {PyStr(<<>>), Unknown} =>
            /\ calculate_name_confidence(e.leaf.m["value"], Provider(e.leaf),
                                         ocr_result.word_confidences,
                                         ocr_result.text) = Ok(0)
            /\ \A provider \in ProviderValues, r \in OcrResults :
                   calculate_name_confidence(e.leaf.m["value"], provider,
                                             r.word_confidences, r.text) = Ok(0)
            /\ Rescored => EnhancedConfidence(e) = PyFloat(0)

C19_UnknownNameReturned ==
    /\ Rescored
    /\ pc = "done"
    /\ \E e \in AnyLeavesOfType({"name"}) :
           /\ e.field = "name"
           /\ e.leaf = Leaf(Unknown, Conf(50))
           /\ EnhancedConfidence(e) = PyFloat(0)
    /\ ocr_result.word_confidences # <<>>

FieldTypes ==
    {"name", "roll_number", "registration_number", "grade", "percentage", "date",
     "marks", "text"}

\* C20: a leaf whose value is null gets confidence exactly 0.0 under each of
\* the five field types, whatever its provider confidence.
C20_NullValueIsZero ==
    \A e \in DraftLeaves :
        e.leaf.m["value"] = PyNone =>
            /\ TypeScore(SectionType(e.section, e.field), PyNone, Provider(e.leaf)) = Ok(0)
            /\ \A type \in FieldTypes, provider \in ProviderValues :
                   TypeScore(type, PyNone, provider) = Ok(0)
            /\ Rescored => EnhancedConfidence(e) = PyFloat(0)

C20_NullLeavesRescored ==
    /\ Rescored
    /\ structured_data.m["candidate_details"] = NullCandidate
    /\ \A field \in {"roll_no", "father_name", "registration_no", "dob", "institution"} :
           enhanced_data.m["candidate_details"].m[field] = Leaf(PyNone, Conf(0))
    /\ \E e \in AnyLeavesOfType({"marks"}) :
           e.leaf = Leaf(PyNone, Conf(96)) /\ EnhancedConfidence(e) = PyFloat(0)
    /\ enhanced_data.m["document_info"].m["issue_date"] = Leaf(PyNone, Conf(0))

\* C25: calculate_confidence_scores does not modify the draft it is given,
\* whether it builds a record or falls back on an error raised partway
\* through scoring; the record of a success is the one built section by
\* section, the result of a failure is the draft.
C25_DraftNotModified ==
    [][pc = "confidence" =>
          /\ structured_data' = structured_data
          /\ enhanced_data' = IF ScoredNow.ok THEN ScoredNow.v ELSE structured_data]_vars

\* the candidate section was scored and a later section raised
C25_FailedPartway ==
    /\ pc = "validate"
    /\ ~ScoredNow.ok
    /\ process_candidate_details(structured_data.m["candidate_details"],
                                 ocr_result.word_confidences, ocr_result.text).ok
    /\ structured_data.m["candidate_details"] = GoodCandidate
    /\ enhanced_data = structured_data

\* the keys of a mapping whose entry is a mapping with a `value`
LeafKeys(mapping) ==
    {key \in DOMAIN mapping.m :
         mapping.m[key].k = "dict" /\ "value" \in DOMAIN mapping.m[key].m}

\* C26: a successful recalibration returns a record with exactly the four
\* section keys, and in each section and each subject exactly the entries of
\* the draft that are mappings with a `value` key; every other entry and
\* every other top-level key is left out.
C26_OnlyLeavesReturned ==
    Rescored =>
        /\ DOMAIN enhanced_data.m =
               {"candidate_details", "subjects", "overall_result", "document_info"}
        /\ \A section \in {"candidate_details", "overall_result", "document_info"} :
               DOMAIN enhanced_data.m[section].m = LeafKeys(structured_data.m[section])
        /\ enhanced_data.m["subjects"].k = "list"
        /\ Len(enhanced_data.m["subjects"].items) = Len(structured_data.m["subjects"].items)
        /\ \A i \in DOMAIN structured_data.m["subjects"].items :
               DOMAIN enhanced_data.m["subjects"].items[i].m =
                   LeafKeys(structured_data.m["subjects"].items[i])

C26_EntriesLeftOut ==
    /\ Rescored
    /\ structured_data.m["candidate_details"].k = "dict"
    /\ DOMAIN structured_data.m["candidate_details"].m = {"name", "roll_no", "confidence"}
    /\ structured_data.m["candidate_details"].m["name"] = S(vAlBo)
    /\ DOMAIN enhanced_data.m["candidate_details"].m = {"roll_no"}

\* the value makes the scoring function of the type return 0.0 at once
ShortCircuited(type, value) ==
    CASE type = "name" -> Falsy(value) \/ value = Unknown
      [] type = "marks" -> value = PyNone
      [] OTHER -> Falsy(value)

\* every token confidence recognition returned is between 0.0 and 1.0
TokensInUnitInterval ==
    \A word \in DOMAIN ocr_result.word_confidences :
        0 <= ocr_result.word_confidences[word] /\ ocr_result.word_confidences[word] <= Unit

\* the leaves of the draft that are scored by a weighted sum, with a provider
\* confidence between 0.0 and 1.0
SummedLeaves ==
    {e \in DraftLeaves :
         /\ InUnitInterval(Provider(e.leaf))
         /\ ~ShortCircuited(SectionType(e.section, e.field), e.leaf.m["value"])}

LeastScore(type) ==
    CASE type \in {"name", "marks"} -> Hundredths(10)
      [] type = "date" -> 64 * 1000
      [] type = "text" -> Hundredths(4)
      [] OTHER -> Hundredths(8)

ScoreOf(e) ==
    TypeScore(SectionType(e.section, e.field), e.leaf.m["value"], Provider(e.leaf))

\* C27: with provider and token confidences between 0.0 and 1.0, a leaf that
\* is not short-circuited gets a score that is at least 0.10 (personal-name,
\* numeric-marks), 0.08 (identifier-pattern), 0.064 (date) or 0.04
\* (generic-text), even when its provider confidence is 0.0.
C27_ScoreStrictlyPositive ==
    (structured_data # None /\ TokensInUnitInterval) =>
        \A e \in SummedLeaves :
            /\ ScoreOf(e).ok
            /\ ScoreOf(e).v >= LeastScore(SectionType(e.section, e.field))
            /\ ScoreOf(e).v > 0
            /\ Invoked("confidence") =>
                   /\ ScoredNow.ok
                   /\ Micro(EnhancedConfidence(e)) >= LeastScore(SectionType(e.section, e.field))

MostScore(type) ==
    CASE type = "name" -> Hundredths(98)
      [] type = "date" -> 948 * 1000
      [] type = "text" -> Unit
      [] OTHER -> Hundredths(96)

\* the call raised, or returned a score no greater than the bound
AtMost(bound, score) == score.ok => score.v <= bound

\* C28: with provider and token confidences between 0.0 and 1.0 the
\* weighted sum is at most 0.98 (personal-name), 0.96 (identifier-pattern,
\* numeric-marks), 0.948 (date) or 1.0 (generic-text), so the cap
\* min(score, 1.0) leaves every score as it is.
C28_SumWithinCap ==
    (structured_data # None /\ TokensInUnitInterval) =>
        \A e \in SummedLeaves :
            ScoreOf(e).ok =>
                /\ ScoreOf(e).v <= MostScore(SectionType(e.section, e.field))
                /\ ScoreOf(e).v <= Unit
                /\ SectionType(e.section, e.field) # "text" => ScoreOf(e).v < Unit
                /\ Rescored => EnhancedConfidence(e) = PyFloat(ScoreOf(e).v)
                /\ pc = "confidence" =>
                       \A type \in FieldTypes :
                           AtMost(MostScore(type),
                                  TypeScore(type, e.leaf.m["value"], Conf(100)))

C28_TextLeafReachesOne ==
    /\ Rescored
    /\ \E e \in SummedLeaves :
           /\ SectionType(e.section, e.field) = "text"
           /\ Provider(e.leaf) = Conf(100)
           /\ ScoreOf(e) = Ok(Unit)
           /\ EnhancedConfidence(e) = PyFloat(Unit)

\* an empty text or a numeric zero
ZeroValued(value) == value.k \in {"str", "int", "float"} /\ Falsy(value)

\* the weighted sum of a numeric zero under numeric-marks
ZeroMarksStated(e) ==
    (4 * Micro(Provider(e.leaf))
     + 4 * Tenths(9)
     + 2 * (IF Contains(ocr_result.text, StrOf(e.leaf.m["value"]))
            THEN Tenths(10) ELSE Tenths(3))) \div 10

\* C29: under the identifier-pattern, date and generic-text types an empty
\* text or a numeric zero gets confidence exactly 0.0, as null does; under
\* numeric-marks only null does, and a marks value of 0 is scored by the
\* weighted sum with numeric component 0.9.
C29_ZeroShortCircuitedExceptMarks ==
    \A e \in DraftLeaves :
        ZeroValued(e.leaf.m["value"]) =>
            /\ SectionType(e.section, e.field) \in FieldTypes \ {"name", "marks"} =>
                   /\ ScoreOf(e) = Ok(0)
                   /\ ScoreOf(e) = TypeScore(SectionType(e.section, e.field), PyNone,
                                             Provider(e.leaf))
                   /\ Rescored => EnhancedConfidence(e) = PyFloat(0)
            /\ (SectionType(e.section, e.field) = "marks"
                    /\ IsNumber(e.leaf.m["value"]) /\ IsNumber(Provider(e.leaf))) =>
                   /\ ScoreOf(e) = Ok(ZeroMarksStated(e))
                   /\ ScoreOf(e).v >= Hundredths(42)
                   /\ Rescored => EnhancedConfidence(e) = PyFloat(Min(ZeroMarksStated(e), Unit))
            /\ pc = "confidence" =>
                   \A type \in FieldTypes \ {"name", "marks"}, provider \in ProviderValues :
                       TypeScore(type, e.leaf.m["value"], provider) = Ok(0)

C29_ZeroMarksScored ==
    /\ Rescored
    /\ structured_data.m["candidate_details"] = ZeroCandidate
    /\ enhanced_data.m["candidate_details"].m["roll_no"] = Leaf(S(<<>>), Conf(0))
    /\ enhanced_data.m["document_info"].m["issue_date"] = Leaf(S(<<>>), Conf(0))
    /\ enhanced_data.m["document_info"].m["issue_place"] = Leaf(PyFloat(0), Conf(0))
    /\ enhanced_data.m["overall_result"].m["percentage"] = Leaf(PyFloat(0), Conf(0))
    /\ \E e \in AnyLeavesOfType({"marks"}) :
           /\ e.leaf = Leaf(PyInt(0), Conf(50))
           /\ ~Contains(ocr_result.text, <<"0">>)
           /\ EnhancedConfidence(e) = Conf(62)

\* the object the reply parsed to, before the repair pass
GivenDraft == json_loads(Braced(response)).v

\* out is obj with nothing changed but confidences that are not numbers
\* between 0.0 and 1.0, each of them kept or replaced by 0.0
RECURSIVE OnlyInvalidConfidencesChanged(_, _)
OnlyInvalidConfidencesChanged(out, obj) ==
    CASE obj.k = "dict" ->
            /\ out.k = "dict"
            /\ DOMAIN out.m = DOMAIN obj.m
            /\ \A key \in DOMAIN obj.m :
                   IF key = "confidence"
                   THEN IF InUnitInterval(obj.m[key])
                        THEN out.m[key] = obj.m[key]
                        ELSE out.m[key] \in {obj.m[key], PyFloat(0)}
                   ELSE OnlyInvalidConfidencesChanged(out.m[key], obj.m[key])
      [] obj.k = "list" ->
            /\ out.k = "list"
            /\ Len(out.items) = Len(obj.items)
            /\ \A i \in DOMAIN obj.items :
                   OnlyInvalidConfidencesChanged(out.items[i], obj.items[i])
      [] OTHER -> out = obj

\* out is the draft with its missing sections added, a subjects that is not
\* a list replaced, and nothing else changed but invalid confidences
MinimallyRepaired(out, draft) ==
    /\ DOMAIN out.m = DOMAIN draft.m \cup Range(required_sections)
    /\ \A key \in DOMAIN out.m :
           IF key \notin DOMAIN draft.m
           THEN out.m[key] = IF key = "subjects" THEN EmptyList ELSE EmptyDict
           ELSE IF key = "subjects" /\ ~IsList(draft.m[key])
           THEN out.m[key] = EmptyList
           ELSE OnlyInvalidConfidencesChanged(out.m[key], draft.m[key])

\* C30: the repair pass is idempotent and minimal: applied to a repaired
\* draft it changes nothing, and applied to any draft it changes only
\* missing top-level sections, a subjects that is not a list and invalid
\* confidences; every value and every confidence that is a number between
\* 0.0 and 1.0 is as it was given.
C30_RepairIdempotentAndMinimal ==
    structured_data # None =>
        /\ structured_data = validate_structure(GivenDraft)
        /\ validate_structure(structured_data) = structured_data
        /\ validate_confidence_scores(structured_data) = structured_data
        /\ MinimallyRepaired(structured_data, GivenDraft)

\* a confidence of 1.0 and an invalid one in the same draft
C30_ValidKeptInvalidReset ==
    /\ structured_data # None
    /\ Conf(100) \in ConfidenceEntries(GivenDraft)
    /\ Conf(100) \in ConfidenceEntries(structured_data)
    /\ \E c \in ConfidenceEntries(GivenDraft) : ~InUnitInterval(c)
    /\ ConfidenceEntries(structured_data) # ConfidenceEntries(GivenDraft)

Ended(r) == requests[r].pc \in {"done", "failed"}

\* C22: requests running concurrently on the shared instances do not
\* interfere: under every interleaving of their stages the outcome of each
\* request, a record or an error, is the outcome extract_marksheet_data has
\* when run alone on the request's upload with the same answers from
\* recognition and the provider; and the engine's pattern table is as it
\* was constructed.
C22_OutcomeAsWhenRunAlone ==
    /\ self_patterns = patterns
    /\ \A r \in DOMAIN requests :
           Ended(r) =>
               requests[r].result =
                   extract_marksheet_data(requests[r].file, requests[r].recognised,
                                          requests[r].replied)

\* two requests that ran interleaved were given the same reply and different
\* recognition results, and both returned, each its own record
C22_BothReturnedInterleaved ==
    /\ \A r \in {1, 2} : requests[r].pc = "done"
    /\ requests[1].replied = requests[2].replied
    /\ requests[1].ocr_result # requests[2].ocr_result
    /\ requests[1].result # requests[2].result

\* one run of extract_marksheet_data, followed stage by stage, ends as the
\* function says
RunEndsAsFunction ==
    Finished =>
        result = extract_marksheet_data(
                     file,
                     IF ocr_result = None THEN OcrFailed ELSE Ok(ocr_result),
                     IF result = Exception(ProviderFailed) THEN ProviderFailed
                     ELSE Ok(response))

\* the entries of a list that carry a filename
Named(items, filename) ==
    Cardinality({i \in DOMAIN items : items[i].filename = filename})

\* the batch passed the key check and the size check
BatchAccepted ==
    /\ endpoint = "batch"
    /\ verify_api_key(credentials)
    /\ Len(files) <= MAX_BATCH_SIZE

\* the files the loop is done with
FilesDone == SubSeq(files, 1, file_index - 1)

\* C23: in a batch of N files every file the loop is done with is in exactly
\* one of results and errors, a file that fails validation or whose
\* pipeline raises goes to errors and the loop goes on, and the response,
\* sent once every file was processed, has successful + failed =
\* total_files = N.
C23_EveryFileFiledOnce ==
    (BatchAccepted /\ api_pc \in {"loop", "sent"}) =>
        /\ Len(results) + Len(errors) = Len(FilesDone)
        /\ \A upload \in Uploads :
               Named(results, upload.filename) + Named(errors, upload.filename)
                   = Named(FilesDone, upload.filename)
        /\ \A i \in DOMAIN FilesDone :
               /\ Cardinality({n \in DOMAIN api_calls :
                                   api_calls[n] = Called("validate_file", i)}) = 1
               /\ ~validate_file(files[i]).is_valid =>
                      /\ Named(results, files[i].filename) = 0
                      /\ \E n \in DOMAIN errors :
                             errors[n] = BatchErrorItem(files[i], validate_file(files[i]).error)
        /\ api_pc = "sent" =>
               /\ Len(FilesDone) = Len(files)
               /\ http_response.status_code = 200
               /\ http_response.body.status = "completed"
               /\ http_response.body.total_files = Len(files)
               /\ http_response.body.successful + http_response.body.failed
                      = http_response.body.total_files
               /\ http_response.body.successful = Len(http_response.body.results)
               /\ http_response.body.failed = Len(http_response.body.errors)
               /\ http_response.body.results = results
               /\ http_response.body.errors = errors

\* a batch of three files: the first failed validation, the pipeline of the
\* second raised, the third returned a record
C23_FailuresThenSuccess ==
    /\ BatchAccepted
    /\ api_pc = "sent"
    /\ Len(files) = 3
    /\ ~validate_file(files[1]).is_valid
    /\ validate_file(files[2]).is_valid
    /\ Len(errors) = 2
    /\ errors[1].error = "File type not allowed"
    /\ errors[2] = BatchErrorItem(files[2], OcrFailed.msg)
    /\ Len(results) = 1
    /\ results[1].filename = files[3].filename
    /\ http_response.body.successful = 1
    /\ http_response.body.failed = 2
    /\ http_response.body.total_files = 3

\* C24: on both endpoints a request whose API key is missing or invalid is
\* answered 401 with no file validated and no pipeline stage started; on the
\* single endpoint a request with a valid key whose file fails validation
\* is answered 400 with the pipeline never started.
C24_KeyThenFileChecked ==
    /\ ~verify_api_key(credentials) =>
           /\ api_calls = <<>>
           /\ results = <<>> /\ errors = <<>>
           /\ api_pc \in {"verify", "sent"}
           /\ api_pc = "sent" => http_response.status_code = 401
    /\ (endpoint = "extract" /\ verify_api_key(credentials)
            /\ ~validate_file(files[1]).is_valid) =>
           /\ \A n \in DOMAIN api_calls : api_calls[n].call # "extract_marksheet_data"
           /\ api_pc \in {"verify", "validate", "sent"}
           /\ api_pc = "sent" =>
                  /\ http_response.status_code = 400
                  /\ api_calls = <<Called("validate_file", 1)>>

\* a batch too large, sent with a key that is not configured, was answered
\* 401 and nothing else was done
C24_BatchRejectedUnauthorized ==
    /\ endpoint = "batch"
    /\ credentials = Bearer("wrong-key")
    /\ Len(files) > MAX_BATCH_SIZE
    /\ api_pc = "sent"
    /\ http_response.status_code = 401
    /\ api_calls = <<>>

====
